---- MODULE Spec2Model ----
(***************************************************************************)
(* A model of the Kami puzzle search engine: the puzzle state model with   *)
(* its collapse operation (core.py), the canonical identity tracker        *)
(* (core.py), the puzzle adapter and its search entry points (solver.py),  *)
(* the generic breadth-first solver (search_algs.py) and the indexed       *)
(* binary heaps (minheap.py, maxheap.py).                                  *)
(*                                                                         *)
(* One module, four specifications over the same variables:                *)
(*   SpecPuzzle  a puzzle being built, recolored and collapsed             *)
(*   SpecHeap    one MinHeap or MaxHeap under add_or_update / pop / peek   *)
(*   SpecHash    full_hash queries against one shared HashTracker          *)
(*   SpecSearch  bfs_solve and a_star_solve on a start puzzle              *)
(***************************************************************************)
EXTENDS Integers, Sequences, FiniteSets, TLC

VARIABLES
    puzzle,     \* SpecPuzzle: the Puzzle object
    lastop,     \* SpecPuzzle: the last operation and the puzzle it was applied to
    heap,       \* SpecHeap: the heap object (kind, _heap, _pos)
    heapout,    \* SpecHeap: the outcome of the last heap operation
    hashes,     \* HashTracker.hashes of the shared tracker
    remembered, \* SpecHash: some earlier full_hash query and its answer
    lastq,      \* SpecHash: the latest full_hash query and its answer
    start,      \* SpecSearch: the puzzle bfs_solve / a_star_solve is called on
    bfs,        \* SpecSearch: the BFS run (position, name_to_data, queue, result)
    astar       \* SpecSearch: the a_star_solve call (position, result)

vars == <<puzzle, lastop, heap, heapout, hashes, remembered, lastq, start, bfs, astar>>

----------------------------------------------------------------------------
(* Bounds of the model. *)

\* node ids of the puzzles built in SpecPuzzle are 1..MaxNodes
MaxNodes == 3
\* heap items are named 1..HeapNames and keyed 0..HeapKeys - 1
HeapNames == 3
HeapKeys == 3
\* SpecHash hashes every path of at most HashMaxNodes nodes colored with ORANGE
\* and DARK_BLUE, and the named puzzles
HashMaxNodes == 1
\* SpecSearch solves every puzzle of at most SearchMaxNodes nodes colored with
\* InfiniteColor(0) .. InfiniteColor(SearchColors - 1), under every palette
\* drawn from these colors
SearchMaxNodes == 2
SearchColors == 3
\* the puzzles of SpecPuzzle are colored with InfiniteColor(0) ..
\* InfiniteColor(PuzzleColors - 1)
PuzzleColors == 2

\* SpecPlay plays moves on every puzzle of at most PlayMaxNodes nodes colored
\* with ORANGE, DARK_BLUE and CREAM (colorings up to a renaming of the colors),
\* under every palette of these colors
PlayMaxNodes == 3
\* SpecDangling: puzzles of at most DanglingMaxNodes nodes, some of them named
\* by an edge only
DanglingMaxNodes == 3

NodeIDs == 1..MaxNodes
Colors == 0..(PuzzleColors - 1)

----------------------------------------------------------------------------
(* Python values. *)

\* Optional values: None is the empty tuple, a present value x is <<x>>.
None == <<>>
Some(x) == <<x>>

Range(s) == {s[i] : i \in DOMAIN s}

\* A set as a sequence, in a fixed order.
RECURSIVE SetToSeq(_)
SetToSeq(S) ==
    IF S = {} THEN <<>>
    ELSE LET x == CHOOSE y \in S : TRUE IN <<x>> \o SetToSeq(S \ {x})

\* The sequence s without the members of the set S, order kept.
RECURSIVE SeqMinus(_, _)
SeqMinus(s, S) ==
    IF s = <<>> THEN <<>>
    ELSE IF Head(s) \in S THEN SeqMinus(Tail(s), S)
    ELSE <<Head(s)>> \o SeqMinus(Tail(s), S)

----------------------------------------------------------------------------
(* core.py: class Puzzle.                                                  *)
(* A puzzle is a record: nodes is the insertion order of graph.nodes,      *)
(* color the node attribute, edges the undirected edge set (an edge is the *)
(* set of its end points), and the dirty flags and caches of __init__.     *)
(* valid_colors is the SolvablePuzzle palette in its iteration order; a    *)
(* Puzzle of core.py has no palette, and its valid_colors is None.         *)

\* a palette is a Python set of colors: its iteration order depends on the
\* run (the hash of a color is the hash of its name), and is any order
PaletteOrders(S) ==
    {q \in [1..Cardinality(S) -> S] : \A i \in DOMAIN q, j \in DOMAIN q : i # j => q[i] # q[j]}

Puzzle_init(valid_colors) ==
    [nodes |-> <<>>, color |-> <<>>, edges |-> {},
     recalc_full_hash |-> TRUE, recalc_quick_hash |-> TRUE, not_collapsed |-> TRUE,
     _full_hash |-> None, _quick_hash |-> None, _iso_graph |-> None,
     valid_colors |-> valid_colors]

\* decorator set_recalc_full_hash
set_recalc_full_hash(p) == [p EXCEPT !.recalc_full_hash = TRUE]

\* decorator redo_all
\* A redo_all that leaves recalc_full_hash as it is.
redo_all_but_full_hash(p) == [p EXCEPT !.recalc_quick_hash = TRUE, !.not_collapsed = TRUE]

redo_all(p) ==
    [p EXCEPT !.recalc_full_hash = TRUE, !.recalc_quick_hash = TRUE, !.not_collapsed = TRUE]

add_node(p, node_id, color) ==
    LET q == redo_all(p)
    IN [q EXCEPT !.nodes = IF node_id \in Range(@) THEN @ ELSE Append(@, node_id),
                 !.color = (node_id :> color) @@ @]

\* graph.add_edge adds the end nodes the graph does not have, without color
add_edge(p, node1, node2) ==
    LET q == redo_all(p)
        with1 == IF node1 \in Range(q.nodes) THEN q.nodes ELSE Append(q.nodes, node1)
    IN [q EXCEPT !.nodes = IF node2 \in Range(with1) THEN with1 ELSE Append(with1, node2),
                 !.edges = @ \cup {{node1, node2}}]

get_color(p, node_id) == p.color[node_id]

get_neighbors(p, node_id) == {n \in Range(p.nodes) : {node_id, n} \in p.edges}

get_same_color_neighbors(p, node_id) ==
    {n \in get_neighbors(p, node_id) : get_color(p, n) = get_color(p, node_id)}

\* A set_color that recolors the same-colored neighbors whatever propagate is.
set_color_always_propagating(p, node_id, color, propagate) ==
    LET q == redo_all(p)
        same_color_neighbors == get_same_color_neighbors(q, node_id)
    IN [q EXCEPT !.color = [n \in DOMAIN @ |->
                               IF n = node_id \/ n \in same_color_neighbors THEN color ELSE @[n]]]

set_color(p, node_id, color, propagate) ==
    LET q == redo_all(p)
        same_color_neighbors == IF propagate THEN get_same_color_neighbors(q, node_id) ELSE {}
    IN [q EXCEPT !.color = [n \in DOMAIN @ |->
                               IF n = node_id \/ n \in same_color_neighbors THEN color ELSE @[n]]]

is_solved(p) == Cardinality({get_color(p, n) : n \in Range(p.nodes)}) = 1

\* collapse._component: the stack traversal; the stack's top is its last element.
RECURSIVE component_loop(_, _, _, _)
RECURSIVE component_any_color_loop(_, _, _)
component_loop(p, color, stack, comp) ==
    IF stack = <<>> THEN comp
    ELSE LET current == stack[Len(stack)]
             rest == SubSeq(stack, 1, Len(stack) - 1)
         IN IF current \in comp THEN component_loop(p, color, rest, comp)
            ELSE IF get_color(p, current) # color THEN component_loop(p, color, rest, comp)
            ELSE component_loop(p, color, rest \o SetToSeq(get_neighbors(p, current)),
                                comp \cup {current})

\* A component search without the color test of line 182: the whole connected
\* component of start_id.
component_any_color_loop(p, stack, comp) ==
    IF stack = <<>> THEN comp
    ELSE LET current == stack[Len(stack)]
             rest == SubSeq(stack, 1, Len(stack) - 1)
         IN IF current \in comp THEN component_any_color_loop(p, rest, comp)
            ELSE component_any_color_loop(p, rest \o SetToSeq(get_neighbors(p, current)),
                                          comp \cup {current})

component_any_color(p, start_id) == component_any_color_loop(p, <<start_id>>, {})

_component(p, start_id) == component_loop(p, get_color(p, start_id), <<start_id>>, {})

\* A merge that joins start_id only to the outside neighbors start_id itself
\* had, not to those of the other members of comp.
_collapse_start_neighbors(p, start_id, comp) ==
    LET color == get_color(p, start_id)
        new_neighbors == {nb \in get_neighbors(p, start_id) : nb \notin comp}
    IN [p EXCEPT !.nodes = Append(SeqMinus(@, comp), start_id),
                 !.color = [n \in (DOMAIN @ \ comp) \cup {start_id} |->
                               IF n = start_id THEN color ELSE @[n]],
                 !.edges = {e \in @ : e \cap comp = {}} \cup {{start_id, nb} : nb \in new_neighbors}]

\* collapse._collapse: the members of comp are removed, start_id is added again
\* (at the end of the node order) and joined to every outside neighbor of comp.
_collapse(p, start_id, comp) ==
    LET color == get_color(p, start_id)
        new_neighbors == {nb \in UNION {get_neighbors(p, node) : node \in comp} : nb \notin comp}
    IN [p EXCEPT !.nodes = Append(SeqMinus(@, comp), start_id),
                 !.color = [n \in (DOMAIN @ \ comp) \cup {start_id} |->
                               IF n = start_id THEN color ELSE @[n]],
                 !.edges = {e \in @ : e \cap comp = {}} \cup {{start_id, nb} : nb \in new_neighbors}]

\* collapse, the loop of the branch without a node: todo is list(self.graph.nodes)
RECURSIVE collapse_loop(_, _, _)
collapse_loop(p, todo, visited) ==
    IF todo = <<>> THEN p
    ELSE LET node == Head(todo)
         IN IF node \in visited \/ node \notin Range(p.nodes)
            THEN collapse_loop(p, Tail(todo), visited)
            ELSE LET comp == _component(p, node)
                 IN collapse_loop(_collapse(p, node, comp), Tail(todo), visited \cup comp)

\* A collapse that returns after the first component it merges and so never
\* records that the puzzle is collapsed.
collapse_first_only(p, node_id) ==
    IF ~p.not_collapsed THEN p
    ELSE IF node_id # None THEN _collapse(p, node_id[1], _component(p, node_id[1]))
    ELSE IF p.nodes = <<>> THEN p
    ELSE _collapse(p, Head(p.nodes), _component(p, Head(p.nodes)))

\* collapse(node_id): node_id is None or Some(id)
collapse(p, node_id) ==
    IF ~p.not_collapsed THEN p
    ELSE IF node_id # None THEN _collapse(p, node_id[1], _component(p, node_id[1]))
    ELSE [collapse_loop(p, p.nodes, {}) EXCEPT !.not_collapsed = FALSE]

\* A canonical graph whose color nodes are added but never joined to the
\* vertices of their color (step 2 without its add_edge).
to_colored_digraph_unjoined(p) ==
    [nodes |-> {<<"v", v>> : v \in Range(p.nodes)}
               \cup {<<"c", get_color(p, v)>> : v \in Range(p.nodes)},
     edges |-> {<<<<"v", e[1]>>, <<"v", e[2]>>>> :
                   e \in {uw \in Range(p.nodes) \X Range(p.nodes) : {uw[1], uw[2]} \in p.edges}}]

\* to_colored_digraph: vertex nodes <<"v", id>>, color nodes <<"c", color>>
to_colored_digraph(p) ==
    [nodes |-> {<<"v", v>> : v \in Range(p.nodes)}
               \cup {<<"c", get_color(p, v)>> : v \in Range(p.nodes)},
     edges |-> {<<<<"c", get_color(p, v)>>, <<"v", v>>>> : v \in Range(p.nodes)}
               \cup {<<<<"v", e[1]>>, <<"v", e[2]>>>> :
                        e \in {uw \in Range(p.nodes) \X Range(p.nodes) : {uw[1], uw[2]} \in p.edges}}]

\* copy (Puzzle.copy and SolvablePuzzle.copy): a new object with the same graph,
\* flags, caches and palette; the tracker is shared.
copy(p) ==
    [nodes |-> p.nodes, color |-> p.color, edges |-> p.edges,
     recalc_full_hash |-> p.recalc_full_hash, recalc_quick_hash |-> p.recalc_quick_hash,
     not_collapsed |-> p.not_collapsed,
     _full_hash |-> p._full_hash, _quick_hash |-> p._quick_hash, _iso_graph |-> p._iso_graph,
     valid_colors |-> p.valid_colors]

----------------------------------------------------------------------------
(* core.py: class HashTracker, and the hash properties of Puzzle.          *)
(* The canonical graph is a record of its node set and its directed edge   *)
(* set.  networkx's Weisfeiler-Lehman graph hash is modelled by the value  *)
(* it digests: per iteration, the multiset of the node labels, a label     *)
(* being the node's previous label with the multiset of its successors'    *)
(* previous labels, and the first label the node's degree (in plus out).   *)
(* The digest (blake2b) is taken to be free of collisions.                 *)

\* iterations, the default of nx.weisfeiler_lehman_graph_hash
WLIterations == 3

Successors(G, n) == {e[2] : e \in {d \in G.edges : d[1] = n}}

Degree(G, n) ==
    Cardinality({e \in G.edges : e[1] = n}) + Cardinality({e \in G.edges : e[2] = n})

\* the multiset of the labels lab[n], n in S: label -> number of occurrences;
\* todo lists the nodes still to count, acc is the multiset so far
RECURSIVE LabelCount(_, _, _)
LabelCount(todo, lab, acc) ==
    IF todo = <<>> THEN acc
    ELSE LabelCount(Tail(todo), lab,
                    IF lab[Head(todo)] \in DOMAIN acc
                    THEN [acc EXCEPT ![lab[Head(todo)]] = @ + 1]
                    ELSE (lab[Head(todo)] :> 1) @@ acc)

LabelCounter(S, lab) == LabelCount(SetToSeq(S), lab, <<>>)

\* one iteration: a node's new label is its label with the multiset of its
\* successors' labels; todo lists the nodes still to relabel
RECURSIVE WLRelabel(_, _, _)
WLRelabel(G, prev, todo) ==
    IF todo = <<>> THEN <<>>
    ELSE (Head(todo) :> <<prev[Head(todo)], LabelCounter(Successors(G, Head(todo)), prev)>>)
            @@ WLRelabel(G, prev, Tail(todo))

RECURSIVE WLInitial(_, _)
WLInitial(G, todo) ==
    IF todo = <<>> THEN <<>>
    ELSE (Head(todo) :> Degree(G, Head(todo))) @@ WLInitial(G, Tail(todo))

\* the labels after k iterations, the nodes' degrees at the start
RECURSIVE WLLabels(_, _)
WLLabels(G, k) ==
    IF k = 0 THEN WLInitial(G, SetToSeq(G.nodes))
    ELSE WLRelabel(G, WLLabels(G, k - 1), SetToSeq(G.nodes))

RECURSIVE WLCounters(_, _, _)
WLCounters(G, lab, k) ==
    IF k > WLIterations THEN <<>>
    ELSE LET next == WLRelabel(G, lab, SetToSeq(G.nodes))
         IN <<LabelCounter(G.nodes, next)>> \o WLCounters(G, next, k + 1)

\* nx.weisfeiler_lehman_graph_hash(G): the digest of the label multisets of
\* the iterations, here the multisets themselves
weisfeiler_lehman_graph_hash(G) == WLCounters(G, WLLabels(G, 0), 1)

\* nx.is_isomorphic(G1, G2) on directed graphs, no node or edge match: is there a
\* bijection of the nodes that maps edges to edges and non-edges to non-edges.
\* f is the mapping built so far, todo the nodes of G1 still to be mapped.
RECURSIVE iso_extend(_, _, _, _)
iso_extend(G1, G2, todo, f) ==
    IF todo = <<>> THEN TRUE
    ELSE LET u == Head(todo)
         IN \E w \in G2.nodes \ {f[x] : x \in DOMAIN f} :
               LET g == (u :> w) @@ f
               IN /\ \A x \in DOMAIN g :
                        /\ (<<u, x>> \in G1.edges) = (<<w, g[x]>> \in G2.edges)
                        /\ (<<x, u>> \in G1.edges) = (<<g[x], w>> \in G2.edges)
                  /\ iso_extend(G1, G2, Tail(todo), g)

\* An isomorphism test that also asks for the same color values on both sides.
is_isomorphic_same_colors(G1, G2) ==
    /\ {n \in G1.nodes : n[1] = "c"} = {n \in G2.nodes : n[1] = "c"}
    /\ Cardinality(G1.nodes) = Cardinality(G2.nodes)
    /\ Cardinality(G1.edges) = Cardinality(G2.edges)
    /\ iso_extend(G1, G2, SetToSeq(G1.nodes), <<>>)

is_isomorphic(G1, G2) ==
    /\ Cardinality(G1.nodes) = Cardinality(G2.nodes)
    /\ Cardinality(G1.edges) = Cardinality(G2.edges)
    /\ iso_extend(G1, G2, SetToSeq(G1.nodes), <<>>)

\* HashTracker._merge: f'{hash}_{index}'
_merge(hash, index) == <<hash, index>>

\* Every value computed once in the code is an operator's argument here.

\* HashTracker.quick_hash, line 69: the pair returned for the canonical graph
hash_and_graph(iso_graph) == <<weisfeiler_lehman_graph_hash(iso_graph), iso_graph>>

\* HashTracker.quick_hash (static): <<quick hash, canonical graph>> of a collapsed copy
HashTracker_quick_hash(p) == hash_and_graph(to_colored_digraph(collapse(copy(p), None)))

\* The properties return the value read (val) and the puzzle with its caches (p).
\* Puzzle.quick_hash and Puzzle.iso_graph, the recalculation: r is the pair
\* returned by HashTracker.quick_hash, i the place of the value read
recalc_quick(p, r, i) ==
    [p |-> [p EXCEPT !._quick_hash = Some(r[1]), !._iso_graph = Some(r[2]),
                     !.recalc_quick_hash = FALSE],
     val |-> r[i]]

\* Puzzle.quick_hash
Puzzle_quick_hash(p) ==
    IF p.recalc_quick_hash THEN recalc_quick(p, HashTracker_quick_hash(p), 1)
    ELSE [p |-> p, val |-> p._quick_hash[1]]

\* Puzzle.iso_graph (its test reads recalc_full_hash)
Puzzle_iso_graph(p) ==
    IF p.recalc_full_hash THEN recalc_quick(p, HashTracker_quick_hash(p), 2)
    ELSE [p |-> p, val |-> p._iso_graph[1]]

\* A bucket search that never tests isomorphism: every puzzle whose quick hash
\* is already known gets the bucket's first index.
bucket_first(hs, quick_hash, iso_graph, p) ==
    IF quick_hash \notin DOMAIN hs
    THEN [hashes |-> (quick_hash :> <<iso_graph>>) @@ hs, p |-> p, val |-> _merge(quick_hash, 0)]
    ELSE [hashes |-> hs, p |-> p, val |-> _merge(quick_hash, 0)]

\* the indices of the bucket whose graph is isomorphic to iso_graph
bucket_matches(bucket, iso_graph) ==
    {index \in 0..(Len(bucket) - 1) : is_isomorphic(iso_graph, bucket[index + 1])}

\* A registration that appends the graph to its bucket even when the bucket
\* holds an isomorphic one.
bucket_result_appending(hs, quick_hash, iso_graph, p, found) ==
    [hashes |-> [hs EXCEPT ![quick_hash] = Append(@, iso_graph)], p |-> p,
     val |-> _merge(quick_hash, Len(hs[quick_hash]))]

\* HashTracker.full_hash, lines 47-58, given the first matching index if any
bucket_result(hs, quick_hash, iso_graph, p, found) ==
    IF found # {}
    THEN [hashes |-> hs, p |-> p,
          val |-> _merge(quick_hash, CHOOSE i \in found : \A j \in found : i <= j)]
    ELSE [hashes |-> [hs EXCEPT ![quick_hash] = Append(@, iso_graph)], p |-> p,
          val |-> _merge(quick_hash, Len(hs[quick_hash]))]

\* HashTracker.full_hash, lines 47-58: the search of the bucket of quick_hash
bucket_search(hs, quick_hash, iso_graph, p) ==
    IF quick_hash \notin DOMAIN hs
    THEN [hashes |-> (quick_hash :> <<iso_graph>>) @@ hs, p |-> p, val |-> _merge(quick_hash, 0)]
    ELSE bucket_result(hs, quick_hash, iso_graph, p, bucket_matches(hs[quick_hash], iso_graph))

\* HashTracker.full_hash, line 46: r2 is the read of puzzle.iso_graph
full_hash_of_graph(hs, quick_hash, r2) == bucket_search(hs, quick_hash, r2.val, r2.p)

\* HashTracker.full_hash, line 45: r1 is the read of puzzle.quick_hash
full_hash_of_quick(hs, r1) == full_hash_of_graph(hs, r1.val, Puzzle_iso_graph(r1.p))

\* HashTracker.full_hash: hs is self.hashes; the answer is the full hash (val),
\* the tracker's hashes after the call, and the puzzle with its caches.
HashTracker_full_hash(hs, p) == full_hash_of_quick(hs, Puzzle_quick_hash(p))

\* Puzzle.full_hash, the recalculation: r is the tracker's answer
recalc_full(r) ==
    [hashes |-> r.hashes,
     p |-> [r.p EXCEPT !._full_hash = Some(r.val), !.recalc_full_hash = FALSE],
     val |-> r.val]

\* Puzzle.full_hash
Puzzle_full_hash(hs, p) ==
    IF p.recalc_full_hash THEN recalc_full(HashTracker_full_hash(hs, p))
    ELSE [hashes |-> hs, p |-> p, val |-> p._full_hash[1]]

\* Puzzle.set_hasher keeps the graph and marks the full hash dirty
set_hasher(p) == set_recalc_full_hash(p)

----------------------------------------------------------------------------
(* minheap.py: class MinHeap.  A heap object is a record: _heap is the     *)
(* array (index i of the source is position i + 1 of the sequence), _pos   *)
(* maps a stored name to its array index.  An item is a record with its    *)
(* name and its key, .cost in a MinHeap and .score in a MaxHeap.           *)
(* An operation's outcome is a record: h the heap after it, ret its        *)
(* return value, raised the exception it raised (None when it returned).   *)

Returned(h, ret) == [h |-> h, ret |-> ret, raised |-> None]
Raised(h, exc) == [h |-> h, ret |-> None, raised |-> Some(exc)]

\* the last two lines of _sift_up and _sift_down
heap_place(h, item, idx) ==
    [h EXCEPT !._heap[idx + 1] = item, !._pos = (item.name :> idx) @@ @]

\* heap[idx] = heap[other]; pos[heap[other].name] = idx
heap_move(h, idx, other) ==
    [h EXCEPT !._heap[idx + 1] = h._heap[other + 1],
              !._pos = (h._heap[other + 1].name :> idx) @@ @]

RECURSIVE MinHeap_sift_up_loop(_, _, _)
MinHeap_sift_up_loop(h, item, idx) ==
    IF idx = 0 THEN heap_place(h, item, idx)
    ELSE LET parent == (idx - 1) \div 2
         IN IF item.cost >= h._heap[parent + 1].cost THEN heap_place(h, item, idx)
            ELSE MinHeap_sift_up_loop(heap_move(h, idx, parent), item, parent)

MinHeap_sift_up(h, idx) == MinHeap_sift_up_loop(h, h._heap[idx + 1], idx)

RECURSIVE MinHeap_sift_down_loop(_, _, _)
MinHeap_sift_down_loop(h, item, idx) ==
    LET size == Len(h._heap)
        left == 2 * idx + 1
        right == left + 1
        smaller == IF right < size /\ h._heap[right + 1].cost < h._heap[left + 1].cost
                   THEN right ELSE left
    IN IF left >= size THEN heap_place(h, item, idx)
       ELSE IF h._heap[smaller + 1].cost >= item.cost THEN heap_place(h, item, idx)
       ELSE MinHeap_sift_down_loop(heap_move(h, idx, smaller), item, smaller)

MinHeap_sift_down(h, idx) == MinHeap_sift_down_loop(h, h._heap[idx + 1], idx)

\* __init__: for i in reversed(range(len(self._heap) // 2)): self._sift_down(i)
RECURSIVE MinHeap_heapify(_, _)
MinHeap_heapify(h, i) ==
    IF i < 0 THEN h ELSE MinHeap_heapify(MinHeap_sift_down(h, i), i - 1)

MinHeap_init(items) ==
    LET loaded == [kind |-> "min", _heap |-> items,
                   _pos |-> [n \in {items[i].name : i \in DOMAIN items} |->
                               (CHOOSE i \in DOMAIN items :
                                   /\ items[i].name = n
                                   /\ \A j \in DOMAIN items : items[j].name = n => j <= i) - 1]]
    IN MinHeap_heapify(loaded, (Len(items) \div 2) - 1)

\* An add_or_update that inserts or replaces the item and restores no order.
MinHeap_add_or_update_no_sift(h, obj) ==
    IF obj.name \notin DOMAIN h._pos
    THEN [h EXCEPT !._heap = Append(@, obj), !._pos = (obj.name :> Len(h._heap)) @@ @]
    ELSE [h EXCEPT !._heap[h._pos[obj.name] + 1] = obj]

MinHeap_add_or_update(h, obj) ==
    IF obj.name \notin DOMAIN h._pos
    THEN LET idx == Len(h._heap)
             g == [h EXCEPT !._heap = Append(@, obj), !._pos = (obj.name :> idx) @@ @]
         IN MinHeap_sift_up(g, idx)
    ELSE LET idx == h._pos[obj.name]
             old == h._heap[idx + 1]
             g == [h EXCEPT !._heap[idx + 1] = obj]
         IN IF obj.cost < old.cost THEN MinHeap_sift_up(g, idx)
            ELSE IF obj.cost > old.cost THEN MinHeap_sift_down(g, idx)
            ELSE g

\* the array without its last element, and the map without a name
heap_drop_last(h) == [h EXCEPT !._heap = SubSeq(@, 1, Len(@) - 1)]
heap_del_pos(h, name) == [h EXCEPT !._pos = [n \in DOMAIN @ \ {name} |-> @[n]]]

\* A pop that answers None on an empty heap instead of raising.
MinHeap_pop_silent(h) ==
    IF h._heap = <<>> THEN Returned(h, None)
    ELSE LET top == h._heap[1]
             last == h._heap[Len(h._heap)]
             g == heap_del_pos(heap_drop_last(h), top.name)
         IN IF g._heap # <<>>
            THEN Returned(MinHeap_sift_down(
                     [g EXCEPT !._heap[1] = last, !._pos = (last.name :> 0) @@ @], 0), Some(top))
            ELSE Returned(g, Some(top))

MinHeap_pop(h) ==
    IF h._heap = <<>> THEN Raised(h, "IndexError")
    ELSE LET top == h._heap[1]
             last == h._heap[Len(h._heap)]
             g == heap_del_pos(heap_drop_last(h), top.name)
         IN IF g._heap # <<>>
            THEN Returned(MinHeap_sift_down(
                     [g EXCEPT !._heap[1] = last, !._pos = (last.name :> 0) @@ @], 0), Some(top))
            ELSE Returned(g, Some(top))

MinHeap_peek(h) == Returned(h, IF h._heap # <<>> THEN Some(h._heap[1]) ELSE None)

----------------------------------------------------------------------------
(* maxheap.py: class MaxHeap, keyed by .score. *)

RECURSIVE MaxHeap_sift_up_loop(_, _, _)
MaxHeap_sift_up_loop(h, item, idx) ==
    IF idx = 0 THEN heap_place(h, item, idx)
    ELSE LET parent == (idx - 1) \div 2
         IN IF item.score <= h._heap[parent + 1].score THEN heap_place(h, item, idx)
            ELSE MaxHeap_sift_up_loop(heap_move(h, idx, parent), item, parent)

MaxHeap_sift_up(h, idx) == MaxHeap_sift_up_loop(h, h._heap[idx + 1], idx)

RECURSIVE MaxHeap_sift_down_loop(_, _, _)
MaxHeap_sift_down_loop(h, item, idx) ==
    LET size == Len(h._heap)
        left == 2 * idx + 1
        right == left + 1
        larger == IF right < size /\ h._heap[right + 1].score > h._heap[left + 1].score
                  THEN right ELSE left
    IN IF left >= size THEN heap_place(h, item, idx)
       ELSE IF h._heap[larger + 1].score <= item.score THEN heap_place(h, item, idx)
       ELSE MaxHeap_sift_down_loop(heap_move(h, idx, larger), item, larger)

MaxHeap_sift_down(h, idx) == MaxHeap_sift_down_loop(h, h._heap[idx + 1], idx)

RECURSIVE MaxHeap_heapify(_, _)
MaxHeap_heapify(h, i) ==
    IF i < 0 THEN h ELSE MaxHeap_heapify(MaxHeap_sift_down(h, i), i - 1)

MaxHeap_init(items) ==
    LET loaded == [kind |-> "max", _heap |-> items,
                   _pos |-> [n \in {items[i].name : i \in DOMAIN items} |->
                               (CHOOSE i \in DOMAIN items :
                                   /\ items[i].name = n
                                   /\ \A j \in DOMAIN items : items[j].name = n => j <= i) - 1]]
    IN MaxHeap_heapify(loaded, (Len(items) \div 2) - 1)

\* An add_or_update of the MaxHeap that stores the item and never sifts.
MaxHeap_add_or_update_no_sift(h, obj) ==
    IF obj.name \notin DOMAIN h._pos
    THEN [h EXCEPT !._pos = (obj.name :> Len(h._heap)) @@ @, !._heap = Append(@, obj)]
    ELSE [h EXCEPT !._heap[h._pos[obj.name] + 1] = obj]

MaxHeap_add_or_update(h, obj) ==
    IF obj.name \notin DOMAIN h._pos
    THEN LET g == [h EXCEPT !._pos = (obj.name :> Len(h._heap)) @@ @, !._heap = Append(@, obj)]
         IN MaxHeap_sift_up(g, Len(g._heap) - 1)
    ELSE LET idx == h._pos[obj.name]
             old == h._heap[idx + 1]
             g == [h EXCEPT !._heap[idx + 1] = obj]
         IN IF obj.score > old.score THEN MaxHeap_sift_up(g, idx)
            ELSE IF obj.score < old.score THEN MaxHeap_sift_down(g, idx)
            ELSE g

\* A pop of the MaxHeap that leaves the popped name in _pos.
MaxHeap_pop_keeping_pos(h) ==
    IF h._heap = <<>> THEN Raised(h, "IndexError")
    ELSE LET top == h._heap[1]
             last == h._heap[Len(h._heap)]
             g == heap_drop_last(h)
         IN IF g._heap # <<>>
            THEN Returned(MaxHeap_sift_down(
                     [g EXCEPT !._heap[1] = last, !._pos = (last.name :> 0) @@ @], 0), Some(top))
            ELSE Returned(g, Some(top))

MaxHeap_pop(h) ==
    IF h._heap = <<>> THEN Raised(h, "IndexError")
    ELSE LET top == h._heap[1]
             last == h._heap[Len(h._heap)]
             g == heap_del_pos(heap_drop_last(h), top.name)
         IN IF g._heap # <<>>
            THEN Returned(MaxHeap_sift_down(
                     [g EXCEPT !._heap[1] = last, !._pos = (last.name :> 0) @@ @], 0), Some(top))
            ELSE Returned(g, Some(top))

MaxHeap_peek(h) == Returned(h, IF h._heap # <<>> THEN Some(h._heap[1]) ELSE None)

----------------------------------------------------------------------------
(* SpecPuzzle: a puzzle under add_node, add_edge, set_color and collapse.  *)

\* lastop: the operation just applied, the puzzle it was applied to, and the
\* operation applied before it
NoOp == [op |-> "none", before |-> None, prevop |-> "none"]

InitPuzzle ==
    /\ puzzle = Puzzle_init(None)
    /\ lastop = NoOp
    /\ heap = None /\ heapout = None
    /\ hashes = <<>> /\ remembered = None /\ lastq = None
    /\ start = None /\ bfs = None /\ astar = None

OtherThanPuzzle == <<heap, heapout, hashes, remembered, lastq, start, bfs, astar>>

\* add_node with the next unused id
AddNode ==
    \E node_id \in NodeIDs, color \in Colors :
        /\ node_id \notin Range(puzzle.nodes)
        /\ \A m \in NodeIDs : m < node_id => m \in Range(puzzle.nodes)
        /\ puzzle' = add_node(puzzle, node_id, color)
        /\ lastop' = NoOp
        /\ UNCHANGED OtherThanPuzzle

AddEdge ==
    \E node1 \in Range(puzzle.nodes), node2 \in Range(puzzle.nodes) :
        /\ node1 < node2
        /\ {node1, node2} \notin puzzle.edges
        /\ puzzle' = add_edge(puzzle, node1, node2)
        /\ lastop' = NoOp
        /\ UNCHANGED OtherThanPuzzle

SetColor ==
    \E node_id \in Range(puzzle.nodes), color \in Colors, propagate \in BOOLEAN :
        /\ puzzle' = set_color(puzzle, node_id, color, propagate)
        /\ lastop' = NoOp
        /\ UNCHANGED OtherThanPuzzle

Collapse ==
    /\ puzzle' = collapse(puzzle, None)
    /\ lastop' = [op |-> "collapse", before |-> Some(puzzle), prevop |-> lastop.op]
    /\ UNCHANGED OtherThanPuzzle

CollapseNode ==
    \E node_id \in Range(puzzle.nodes) :
        /\ puzzle' = collapse(puzzle, Some(node_id))
        /\ lastop' = NoOp
        /\ UNCHANGED OtherThanPuzzle

NextPuzzle == AddNode \/ AddEdge \/ SetColor \/ Collapse \/ CollapseNode

SpecPuzzle == InitPuzzle /\ [][NextPuzzle]_vars

----------------------------------------------------------------------------
(* Collapse: claims C4 and C5. *)

\* The same-colored nodes reachable from the set S through same-colored edges.
RECURSIVE MonoClosure(_, _)
MonoClosure(p, S) ==
    LET T == S \cup {n \in Range(p.nodes) :
                       \E m \in S : {m, n} \in p.edges /\ p.color[m] = p.color[n]}
    IN IF T = S THEN S ELSE MonoClosure(p, T)

\* The maximal same-colored connected components of p.
MonoComponents(p) == {MonoClosure(p, {n}) : n \in Range(p.nodes)}

NoAdjacentSameColor(p) ==
    \A m \in Range(p.nodes), n \in Range(p.nodes) :
        (m # n /\ {m, n} \in p.edges) => p.color[m] # p.color[n]

\* C4: after collapse() without a node, no two adjacent nodes share a color and
\* the number of surviving nodes is the number of maximal same-colored connected
\* components of the puzzle collapse() was called on.
C4_CollapseCorrect ==
    lastop.op = "collapse" =>
        /\ NoAdjacentSameColor(puzzle)
        /\ Len(puzzle.nodes) = Cardinality(MonoComponents(lastop.before[1]))
        /\ Cardinality(Range(puzzle.nodes)) = Len(puzzle.nodes)

\* C4's case: collapse() merged a same-colored component of several nodes and
\* left more than one node.
C4_Witness ==
    /\ lastop.op = "collapse"
    /\ ~NoAdjacentSameColor(lastop.before[1])
    /\ Len(puzzle.nodes) < Len(lastop.before[1].nodes)
    /\ Len(puzzle.nodes) >= 2

\* C5: a collapse() called right after a collapse() leaves the node set, the
\* edge set and the node colors as the first call left them.
C5_CollapseIdempotent ==
    (lastop.op = "collapse" /\ lastop.prevop = "collapse") =>
        /\ Range(puzzle.nodes) = Range(lastop.before[1].nodes)
        /\ puzzle.edges = lastop.before[1].edges
        /\ puzzle.color = lastop.before[1].color

\* C5's case: the second of two collapse() calls in a row, on a puzzle whose
\* first collapse had merged nodes and left an edge.
C5_Witness ==
    /\ lastop.op = "collapse" /\ lastop.prevop = "collapse"
    /\ puzzle.edges # {}
    /\ Len(puzzle.nodes) < MaxNodes
    /\ ~puzzle.not_collapsed

----------------------------------------------------------------------------
(* SpecHeap: one MinHeap or MaxHeap, built from a list of items with       *)
(* distinct names, under add_or_update, pop and peek.                      *)

Names == 1..HeapNames
Keys == 0..(HeapKeys - 1)

\* the lists of names without repetition
NameLists == {s \in UNION {[1..n -> Names] : n \in 0..HeapNames} :
                 \A i \in DOMAIN s, j \in DOMAIN s : i # j => s[i] # s[j]}

MinItems == UNION {{[i \in DOMAIN ns |-> [name |-> ns[i], cost |-> ks[i]]] :
                      ks \in [DOMAIN ns -> Keys]} : ns \in NameLists}
MaxItems == UNION {{[i \in DOMAIN ns |-> [name |-> ns[i], score |-> ks[i]]] :
                      ks \in [DOMAIN ns -> Keys]} : ns \in NameLists}

\* heapout: the last operation, the heap it was applied to, what it returned or
\* raised, and the operation before it with the key it returned
NoHeapOp == [op |-> "none", before |-> None, ret |-> None, raised |-> None,
             prevop |-> "none", prevkey |-> None]

HeapOutcome(op, out, key) ==
    [op |-> op, before |-> Some(heap), ret |-> out.ret, raised |-> out.raised,
     prevop |-> heapout.op, prevkey |-> IF heapout.op = "pop" THEN key ELSE None]

InitHeap ==
    /\ heap \in {MinHeap_init(items) : items \in MinItems}
                \cup {MaxHeap_init(items) : items \in MaxItems}
    /\ heapout = NoHeapOp
    /\ puzzle = None /\ lastop = None
    /\ hashes = <<>> /\ remembered = None /\ lastq = None
    /\ start = None /\ bfs = None /\ astar = None

OtherThanHeap == <<puzzle, lastop, hashes, remembered, lastq, start, bfs, astar>>

\* the key of the item the previous operation returned, if it returned one
LastKeyMin == IF heapout.ret # None THEN Some(heapout.ret[1].cost) ELSE None
LastKeyMax == IF heapout.ret # None THEN Some(heapout.ret[1].score) ELSE None

MinAddOrUpdate ==
    \E name \in Names, cost \in Keys :
        /\ heap.kind = "min"
        /\ heap' = MinHeap_add_or_update(heap, [name |-> name, cost |-> cost])
        /\ heapout' = HeapOutcome("add_or_update", Returned(heap', None), None)
        /\ UNCHANGED OtherThanHeap

MinPop ==
    /\ heap.kind = "min"
    /\ LET out == MinHeap_pop(heap)
       IN /\ heap' = out.h
          /\ heapout' = HeapOutcome("pop", out, LastKeyMin)
    /\ UNCHANGED OtherThanHeap

MinPeek ==
    /\ heap.kind = "min"
    /\ LET out == MinHeap_peek(heap)
       IN /\ heap' = out.h
          /\ heapout' = HeapOutcome("peek", out, None)
    /\ UNCHANGED OtherThanHeap

MaxAddOrUpdate ==
    \E name \in Names, score \in Keys :
        /\ heap.kind = "max"
        /\ heap' = MaxHeap_add_or_update(heap, [name |-> name, score |-> score])
        /\ heapout' = HeapOutcome("add_or_update", Returned(heap', None), None)
        /\ UNCHANGED OtherThanHeap

MaxPop ==
    /\ heap.kind = "max"
    /\ LET out == MaxHeap_pop(heap)
       IN /\ heap' = out.h
          /\ heapout' = HeapOutcome("pop", out, LastKeyMax)
    /\ UNCHANGED OtherThanHeap

MaxPeek ==
    /\ heap.kind = "max"
    /\ LET out == MaxHeap_peek(heap)
       IN /\ heap' = out.h
          /\ heapout' = HeapOutcome("peek", out, None)
    /\ UNCHANGED OtherThanHeap

NextHeap == MinAddOrUpdate \/ MinPop \/ MinPeek \/ MaxAddOrUpdate \/ MaxPop \/ MaxPeek

SpecHeap == InitHeap /\ [][NextHeap]_vars

----------------------------------------------------------------------------
(* Heaps: claims C6 and C9. *)

StoredItems(h) == Range(h._heap)

\* C6: each pop of a MinHeap (MaxHeap) returns an item whose key is the minimum
\* (maximum) of the keys stored when it was called, and a pop that follows a pop
\* returns a key that is not smaller (not larger) than the one before.
C6_PopReturnsExtreme ==
    (heapout.op = "pop" /\ heapout.raised = None) =>
        LET before == heapout.before[1]
            top == heapout.ret[1]
        IN /\ top \in StoredItems(before)
           /\ heap.kind = "min" =>
                 /\ \A it \in StoredItems(before) : top.cost <= it.cost
                 /\ heapout.prevkey # None => heapout.prevkey[1] <= top.cost
           /\ heap.kind = "max" =>
                 /\ \A it \in StoredItems(before) : top.score >= it.score
                 /\ heapout.prevkey # None => heapout.prevkey[1] >= top.score

\* C6's case: a pop right after a pop, from a heap that held at least two items,
\* one of them with a key the popped one beats.
C6_Witness ==
    /\ heapout.op = "pop" /\ heapout.raised = None
    /\ heapout.prevkey # None
    /\ Len(heapout.before[1]._heap) >= 2
    /\ \E i \in DOMAIN heapout.before[1]._heap :
          heapout.before[1]._heap[i] # heapout.ret[1]
          /\ (heap.kind = "min" => heapout.before[1]._heap[i].cost > heapout.ret[1].cost)
          /\ (heap.kind = "max" => heapout.before[1]._heap[i].score < heapout.ret[1].score)

\* C9: pop on an empty heap raises IndexError and leaves _heap and _pos as they
\* were; peek on an empty heap returns None without raising; peek never changes
\* the heap.
C9_EmptyPopAndPeek ==
    /\ (heapout.op = "pop" /\ heapout.before[1]._heap = <<>>) =>
          /\ heapout.raised = Some("IndexError")
          /\ heap._heap = heapout.before[1]._heap
          /\ heap._pos = heapout.before[1]._pos
    /\ heapout.op = "peek" =>
          /\ heapout.raised = None
          /\ heap = heapout.before[1]
          /\ heapout.before[1]._heap = <<>> => heapout.ret = None
          /\ heapout.before[1]._heap # <<>> => heapout.ret = Some(heapout.before[1]._heap[1])

\* C9's case: a pop on a heap that was emptied by pops.
C9_Witness ==
    /\ heapout.op = "pop"
    /\ heapout.before[1]._heap = <<>>
    /\ heapout.prevop = "pop"
    /\ heapout.raised # None

----------------------------------------------------------------------------
(* SpecHash: full_hash queries against one shared HashTracker.  The        *)
(* puzzles queried are built with add_node and add_edge: every path of at  *)
(* most HashMaxNodes nodes, the two puzzles of core.py's demo, and two     *)
(* colorings of a hexagon with one quick hash and different shapes.        *)

\* color.py: the members of InfiniteColor
ORANGE == 0
DARK_BLUE == 1
CREAM == 2
TURQUOISE == 3

RECURSIVE add_nodes(_, _, _)
add_nodes(p, ids, colors) ==
    IF ids = <<>> THEN p
    ELSE add_nodes(add_node(p, Head(ids), Head(colors)), Tail(ids), Tail(colors))

RECURSIVE add_edges(_, _)
add_edges(p, pairs) ==
    IF pairs = <<>> THEN p
    ELSE add_edges(add_edge(p, Head(pairs)[1], Head(pairs)[2]), Tail(pairs))

\* a puzzle built node by node, then edge by edge
Build(ids, colors, pairs) == add_edges(add_nodes(Puzzle_init(None), ids, colors), pairs)

\* core.py demo(): puzzle1 and puzzle2
DemoPuzzle1 ==
    Build(<<1, 2, 3, 4, 5>>, <<ORANGE, ORANGE, DARK_BLUE, CREAM, CREAM>>,
          <<<<1, 2>>, <<2, 3>>, <<3, 4>>, <<4, 5>>, <<5, 1>>>>)
DemoPuzzle2 ==
    Build(<<10, 20, 30, 80, 70>>, <<CREAM, CREAM, TURQUOISE, ORANGE, ORANGE>>,
          <<<<10, 20>>, <<20, 30>>, <<30, 80>>, <<80, 70>>, <<70, 10>>>>)

\* A hexagon colored so that the two-node color classes are two steps apart
\* (HexNear) or three steps apart (HexFar): one quick hash, not isomorphic.
HexEdges == <<<<1, 2>>, <<2, 3>>, <<3, 4>>, <<4, 5>>, <<5, 6>>, <<6, 1>>>>
HexNear == Build(<<1, 2, 3, 4, 5, 6>>, <<0, 1, 0, 1, 2, 3>>, HexEdges)
HexFar == Build(<<1, 2, 3, 4, 5, 6>>, <<0, 1, 2, 0, 1, 3>>, HexEdges)

NamedPuzzles == {DemoPuzzle1, DemoPuzzle2, HexNear, HexFar}

HashColorSet == {ORANGE, DARK_BLUE}

\* the pairs i < j of 1..n as a sequence
PairSeq(n) == SetToSeq({pr \in (1..n) \X (1..n) : pr[1] < pr[2]})

\* the paths 1 - 2 - ... - n of at most HashMaxNodes nodes, in every coloring
SmallPuzzles ==
    UNION {{Build([i \in 1..n |-> i], colors, [i \in 1..(n - 1) |-> <<i, i + 1>>]) :
               colors \in [1..n -> HashColorSet]} : n \in 0..HashMaxNodes}

Family == SmallPuzzles \cup NamedPuzzles

\* The puzzle whose node order, colors and edges are those of p renamed by the
\* node renaming pi and the color renaming sigma.
Renamed(p, pi, sigma) ==
    Build([i \in DOMAIN p.nodes |-> pi[p.nodes[i]]],
          [i \in DOMAIN p.nodes |-> sigma[p.color[p.nodes[i]]]],
          SetToSeq({<<pi[pr[1]], pi[pr[2]]>> :
                       pr \in {q \in Range(p.nodes) \X Range(p.nodes) :
                                  q[1] <= q[2] /\ {q[1], q[2]} \in p.edges}}))

Injections(S, T) == {f \in [S -> T] : \A a \in S, b \in S : a # b => f[a] # f[b]}

\* the renamings tried on p: when p is small, every renaming of its ids into
\* 1 .. HashMaxNodes + 1 with every permutation of ORANGE, DARK_BLUE and CREAM;
\* else the demo's own renaming, or a rotation and a reflection of the hexagon
\* with a permutation of the four colors
Renamings(p) ==
    IF Len(p.nodes) <= HashMaxNodes
    THEN Injections(Range(p.nodes), 1..(HashMaxNodes + 1))
            \X Injections({ORANGE, DARK_BLUE, CREAM}, {ORANGE, DARK_BLUE, CREAM})
    ELSE IF p = DemoPuzzle1
    THEN {<<(1 :> 10) @@ (2 :> 20) @@ (3 :> 30) @@ (4 :> 80) @@ (5 :> 70),
            (ORANGE :> CREAM) @@ (DARK_BLUE :> TURQUOISE) @@ (CREAM :> ORANGE)>>}
    ELSE IF p \in {HexNear, HexFar}
    THEN {<<[i \in 1..6 |-> (i % 6) + 1], [c \in 0..3 |-> (c + 1) % 4]>>,
          <<[i \in 1..6 |-> 7 - i], [c \in 0..3 |-> 3 - c]>>}
    ELSE {}

\* a query's record: the puzzle asked about, its canonical graph and quick hash,
\* the full hash answered, and whether the puzzle is a renaming of the
\* remembered query's puzzle
QueryRecord(p, out, renamed) ==
    [nodes |-> p.nodes, color |-> p.color, edges |-> p.edges,
     iso |-> out.p._iso_graph[1], quick |-> out.p._quick_hash[1], full |-> out.val,
     renamed |-> renamed]

InitHash ==
    /\ hashes = <<>>
    /\ remembered = None /\ lastq = None
    /\ puzzle = None /\ lastop = None
    /\ heap = None /\ heapout = None
    /\ start = None /\ bfs = None /\ astar = None

OtherThanHash == <<puzzle, lastop, heap, heapout, start, bfs, astar>>

\* the tracker and the latest query after the answer out to a query of p
Answer(p, out, renamed) ==
    /\ hashes' = out.hashes
    /\ lastq' = Some(QueryRecord(p, out, renamed))

\* the puzzle of a query's record, built anew
Rebuilt(q) ==
    Build(q.nodes, [i \in DOMAIN q.nodes |-> q.color[q.nodes[i]]],
          SetToSeq({pr \in Range(q.nodes) \X Range(q.nodes) :
                       pr[1] <= pr[2] /\ {pr[1], pr[2]} \in q.edges}))

\* puzzle.full_hash on a renaming qz of the puzzle p
AskRenamed(qz) == Answer(qz, Puzzle_full_hash(hashes, qz), TRUE)

RenameAndAsk(p) == \E r \in Renamings(p) : AskRenamed(Renamed(p, r[1], r[2]))

\* puzzle.full_hash on a newly built puzzle of the family
Query ==
    /\ lastq = None
    /\ \E p \in Family : Answer(p, Puzzle_full_hash(hashes, p), FALSE)
    /\ UNCHANGED remembered
    /\ UNCHANGED OtherThanHash

\* the latest query, of a puzzle of the family, becomes the remembered one
Remember ==
    /\ lastq # None
    /\ ~lastq[1].renamed
    /\ remembered' = lastq
    /\ lastq' = None
    /\ UNCHANGED hashes
    /\ UNCHANGED OtherThanHash

\* the latest query's answer is dropped; the tracker keeps what it registered
Forget ==
    /\ lastq # None
    /\ lastq' = None
    /\ UNCHANGED <<hashes, remembered>>
    /\ UNCHANGED OtherThanHash

\* puzzle.full_hash on a renaming of the remembered query's puzzle
QueryRenamed ==
    /\ lastq = None
    /\ remembered # None
    /\ RenameAndAsk(Rebuilt(remembered[1]))
    /\ UNCHANGED remembered
    /\ UNCHANGED OtherThanHash

NextHash == Query \/ Remember \/ Forget \/ QueryRenamed

SpecHash == InitHash /\ [][NextHash]_vars

\* C3: at any point of a sequence of full_hash queries against one tracker, an
\* earlier query and the latest one were given the same full identity if and
\* only if the canonical graphs of their collapsed copies are isomorphic,
\* whatever was registered between them.
C3_SameIdentityIffIsomorphic ==
    (remembered # None /\ lastq # None) =>
        ((remembered[1].full = lastq[1].full)
            <=> is_isomorphic(remembered[1].iso, lastq[1].iso))

\* C3's case: a bucket holds two shapes, and the second one's identity is given
\* again to a puzzle with other node ids and colors.
C3_Witness ==
    /\ remembered # None /\ lastq # None
    /\ remembered[1].full = lastq[1].full
    /\ lastq[1].full[2] = 1
    /\ Len(hashes[lastq[1].quick]) = 2
    /\ remembered[1].color # lastq[1].color

\* C10: a puzzle obtained from an earlier query's puzzle by renaming the node
\* ids and the colors by bijections gets, from the same tracker, the earlier
\* puzzle's full identity and quick hash.
C10_RenamedSameIdentity ==
    (lastq # None /\ lastq[1].renamed) =>
        /\ lastq[1].full = remembered[1].full
        /\ lastq[1].quick = remembered[1].quick

\* C10's case: the renaming of a puzzle of five nodes or more to other ids and
\* other colors, hashed after its original.
C10_Witness ==
    /\ lastq # None /\ lastq[1].renamed
    /\ Len(lastq[1].nodes) >= 5
    /\ Range(lastq[1].nodes) # Range(remembered[1].nodes)
    /\ \A i \in DOMAIN lastq[1].nodes :
          lastq[1].color[lastq[1].nodes[i]] # remembered[1].color[remembered[1].nodes[i]]

----------------------------------------------------------------------------
(* solver.py: class SolvablePuzzle; search_algs.py: BFSSolver, AStarSolver *)
(* A move is <<node, color>>.  A call's outcome is the value it returns,   *)
(* None or Some(list of moves), or the exception it raises.                *)

Return(value) == [outcome |-> "return", value |-> value]
Raise(exc) == [outcome |-> "raise", value |-> exc]

\* SolvablePuzzle.get_valid_moves: nodes in graph order, colors in the
\* palette's iteration order
AllMoves(p) ==
    [k \in 1..(Len(p.nodes) * Len(p.valid_colors)) |->
        <<p.nodes[((k - 1) \div Len(p.valid_colors)) + 1],
          p.valid_colors[((k - 1) % Len(p.valid_colors)) + 1]>>]

\* a get_valid_moves without its filter: every node with every palette color
get_valid_moves_unfiltered(p) == AllMoves(p)

get_valid_moves(p) == SelectSeq(AllMoves(p), LAMBDA m : m[2] # get_color(p, m[1]))

search_namer(hs, p) == Puzzle_full_hash(hs, p)

\* a detector that is content with two colors
search_detector_two_colors(p) == Cardinality({get_color(p, n) : n \in Range(p.nodes)}) <= 2

search_detector(p) == is_solved(p)

search_expander(p) == get_valid_moves(p)

\* A follower that recolors the copy and leaves it as the move left it.
search_follower_without_collapse(p, move) == set_color(copy(p), move[1], move[2], TRUE)

search_follower(p, move) == collapse(set_color(copy(p), move[1], move[2], TRUE), None)

\* BFSSolver._solve_without_progress, lines 83-93: the loop over the moves of
\* the node popped.  The answer is the tracker, name_to_data and queue after
\* the loop, and the path returned from inside it if any.
RECURSIVE bfs_for_moves(_, _, _, _, _, _)
RECURSIVE bfs_child(_, _, _, _, _, _, _)
RECURSIVE bfs_named(_, _, _, _, _, _)

\* A loop body without the test of line 91: the child is recorded and enqueued
\* whether its name is known or not.
bfs_named_always(name_to_data, queue, current_info, current_path, moves, out) ==
    bfs_for_moves(out.hashes,
                  (out.val :> [info |-> out.p, path |-> Append(current_path, Head(moves))])
                     @@ name_to_data,
                  Append(queue, out.val), current_info, current_path, Tail(moves))

\* lines 90-93: out is the child's naming, child_path the path to it
bfs_named(name_to_data, queue, current_info, current_path, moves, out) ==
    IF out.val \in DOMAIN name_to_data
    THEN bfs_for_moves(out.hashes, name_to_data, queue, current_info, current_path, Tail(moves))
    ELSE bfs_for_moves(out.hashes,
                       (out.val :> [info |-> out.p, path |-> Append(current_path, Head(moves))])
                          @@ name_to_data,
                       Append(queue, out.val), current_info, current_path, Tail(moves))

\* A loop body that returns the path to the node popped when a child is the
\* goal, without the move that leads to the child.
bfs_child_parent_path(hs, name_to_data, queue, current_info, current_path, moves, child_info) ==
    IF search_detector(child_info)
    THEN [hashes |-> hs, name_to_data |-> name_to_data, queue |-> queue,
          returned |-> Some(current_path)]
    ELSE bfs_named(name_to_data, queue, current_info, current_path, moves,
                   search_namer(hs, child_info))

\* lines 85-90: child_info is the puzzle after the first of moves
bfs_child(hs, name_to_data, queue, current_info, current_path, moves, child_info) ==
    IF search_detector(child_info)
    THEN [hashes |-> hs, name_to_data |-> name_to_data, queue |-> queue,
          returned |-> Some(Append(current_path, Head(moves)))]
    ELSE bfs_named(name_to_data, queue, current_info, current_path, moves,
                   search_namer(hs, child_info))

bfs_for_moves(hs, name_to_data, queue, current_info, current_path, moves) ==
    IF moves = <<>>
    THEN [hashes |-> hs, name_to_data |-> name_to_data, queue |-> queue, returned |-> None]
    ELSE bfs_child(hs, name_to_data, queue, current_info, current_path, moves,
                   search_follower(current_info, Head(moves)))

\* lines 79-82: one turn of the while loop, current is name_to_data[current_name]
bfs_iteration(hs, name_to_data, queue, current) ==
    bfs_for_moves(hs, name_to_data, queue, current.info, current.path,
                  search_expander(current.info))

\* AStarSolver.__init__: the names of its parameters
AStarSolver_parameters ==
    {"namer", "detector", "expander", "follower", "heuristic", "cost", "init_generic_score"}

\* solver.py lines 181-189: the keywords a_star_solve calls AStarSolver with
a_star_solve_keywords ==
    {"namer", "detector", "expander", "follower", "heuristic", "cost", "init_cost"}

\* Python's call of AStarSolver(**keywords): an unexpected keyword raises TypeError
AStarSolver_init(keywords) ==
    IF keywords \subseteq AStarSolver_parameters /\ AStarSolver_parameters \subseteq keywords
    THEN Return(None)
    ELSE Raise("TypeError")

\* SolvablePuzzle.a_star_solve: the outcome of lines 177-189, the construction
\* of the solver for the collapsed copy
a_star_solve_construct(p) == AStarSolver_init(a_star_solve_keywords)

----------------------------------------------------------------------------
(* SpecSearch: bfs_solve and a_star_solve called on one puzzle.            *)

SearchColorSet == 0..(SearchColors - 1)

\* the palettes: a palette is a set, its iteration order any order
Palettes ==
    UNION {{q \in [1..n -> SearchColorSet] : \A i \in 1..n, j \in 1..n : i # j => q[i] # q[j]} :
              n \in 0..SearchColors}

\* a SolvablePuzzle built node by node, then edge by edge
BuildSolvable(ids, colors, pairs, valid_colors) ==
    add_edges(add_nodes(Puzzle_init(valid_colors), ids, colors), pairs)

StartPuzzles ==
    UNION {UNION {UNION {{BuildSolvable([i \in 1..n |-> i], colors, SetToSeq(E), palette) :
                             E \in SUBSET Range(PairSeq(n))} :
                         colors \in [1..n -> SearchColorSet]} :
                  n \in 0..SearchMaxNodes} : palette \in Palettes}

HeuristicNames == {"COLOR", "MAX_EDGE_REDUCTION"}
HeuristicLists == {<<h>> : h \in HeuristicNames} \cup (HeuristicNames \X HeuristicNames)

BfsIdle == [pc |-> "idle", name_to_data |-> <<>>, queue |-> <<>>, result |-> None]
AStarIdle == [pc |-> "idle", heuristics |-> <<>>, result |-> None]

InitSearch ==
    /\ start \in StartPuzzles
    /\ hashes = <<>>
    /\ bfs = BfsIdle
    /\ astar = AStarIdle
    /\ puzzle = None /\ lastop = None
    /\ heap = None /\ heapout = None
    /\ remembered = None /\ lastq = None

OtherThanSearch == <<puzzle, lastop, heap, heapout, remembered, lastq>>

\* bfs_solve up to the while loop: out is the naming of the collapsed copy
BfsEnter(out) ==
    /\ hashes' = out.hashes
    /\ bfs' = [pc |-> "loop",
               name_to_data |-> (out.val :> [info |-> out.p, path |-> <<>>]),
               queue |-> <<out.val>>, result |-> None]

\* bfs_solve, lines 166-167 and _solve_without_progress, lines 68-76
BfsBegin(collapsed_self) ==
    IF search_detector(collapsed_self)
    THEN /\ bfs' = [BfsIdle EXCEPT !.pc = "done", !.result = Some(Return(Some(<<>>)))]
         /\ UNCHANGED hashes
    ELSE BfsEnter(search_namer(hashes, collapsed_self))

BfsSolve ==
    /\ bfs.pc = "idle"
    /\ BfsBegin(collapse(copy(start), None))
    /\ UNCHANGED <<start, astar>>
    /\ UNCHANGED OtherThanSearch

\* the state after one turn of the while loop
BfsAfter(r) ==
    /\ hashes' = r.hashes
    /\ bfs' = IF r.returned # None
              THEN [pc |-> "done", name_to_data |-> r.name_to_data, queue |-> r.queue,
                    result |-> Some(Return(r.returned))]
              ELSE [bfs EXCEPT !.name_to_data = r.name_to_data, !.queue = r.queue]

\* one turn of the while loop of _solve_without_progress
BfsIteration ==
    /\ bfs.pc = "loop"
    /\ bfs.queue # <<>>
    /\ BfsAfter(bfs_iteration(hashes, bfs.name_to_data, Tail(bfs.queue),
                              bfs.name_to_data[Head(bfs.queue)]))
    /\ UNCHANGED <<start, astar>>
    /\ UNCHANGED OtherThanSearch

\* the queue is empty: line 94
BfsExhausted ==
    /\ bfs.pc = "loop"
    /\ bfs.queue = <<>>
    /\ bfs' = [bfs EXCEPT !.pc = "done", !.result = Some(Return(None))]
    /\ UNCHANGED <<start, hashes, astar>>
    /\ UNCHANGED OtherThanSearch

\* a_star_solve(heuristics)
AStarSolve ==
    /\ astar.pc = "idle"
    /\ \E heuristics \in HeuristicLists :
          astar' = [pc |-> "done", heuristics |-> heuristics,
                    result |-> Some(a_star_solve_construct(collapse(copy(start), None)))]
    /\ UNCHANGED <<start, hashes, bfs>>
    /\ UNCHANGED OtherThanSearch

NextSearch == BfsSolve \/ BfsIteration \/ BfsExhausted \/ AStarSolve

SpecSearch == InitSearch /\ [][NextSearch]_vars

----------------------------------------------------------------------------
(* The least number of moves, by exhaustive search on the puzzle as built: *)
(* a coloring is a function of the nodes, a legal move recolors the whole  *)
(* same-colored region of a node with another color of the palette, and    *)
(* the puzzle is solved when its nodes have exactly one color.             *)

Recolored(p, coloring) == [p EXCEPT !.color = coloring]

Flood(p, coloring, n, c) ==
    [m \in DOMAIN coloring |->
        IF m \in MonoClosure(Recolored(p, coloring), {n}) THEN c ELSE coloring[m]]

Monochrome(p, coloring) == Cardinality({coloring[n] : n \in Range(p.nodes)}) = 1

MovesOf(p, coloring) ==
    {m \in Range(p.nodes) \X Range(p.valid_colors) : m[2] # coloring[m[1]]}

\* frontier: the colorings first reached with k moves; seen: those reached with
\* k moves or fewer
RECURSIVE MinMovesFrom(_, _, _, _)
MinMovesFrom(p, frontier, seen, k) ==
    IF \E coloring \in frontier : Monochrome(p, coloring) THEN Some(k)
    ELSE IF frontier = {} THEN None
    ELSE MinMovesFrom(p,
             UNION {{Flood(p, coloring, m[1], m[2]) : m \in MovesOf(p, coloring)} :
                       coloring \in frontier} \ seen,
             seen \cup UNION {{Flood(p, coloring, m[1], m[2]) : m \in MovesOf(p, coloring)} :
                                 coloring \in frontier},
             k + 1)

\* None when no sequence of legal moves makes p monochrome
MinMoves(p) == MinMovesFrom(p, {p.color}, {p.color}, 0)

\* the solver's call is over and returned a list of n moves
ReturnedMoves(solver, n) ==
    /\ solver.result[1].outcome = "return"
    /\ solver.result[1].value # None
    /\ Len(solver.result[1].value[1]) = n

\* the solver's call is over and returned None
ReturnedNone(solver) ==
    /\ solver.result[1].outcome = "return"
    /\ solver.result[1].value = None

\* C1: when bfs_solve is over on a solvable puzzle, it has returned a list of
\* moves whose length is the least number of legal moves that make the puzzle
\* monochrome.
C1_BfsReturnsMinimum ==
    (bfs.pc = "done" /\ MinMoves(start) # None) => ReturnedMoves(bfs, MinMoves(start)[1])

\* C2: when bfs_solve and a_star_solve are both over on a solvable puzzle, with
\* any non-empty list of heuristics, a_star_solve has returned a list of moves
\* as long as the one bfs_solve returned.
C2_AStarSameLengthAsBfs ==
    (bfs.pc = "done" /\ astar.pc = "done" /\ MinMoves(start) # None) =>
        /\ bfs.result[1].outcome = "return" /\ bfs.result[1].value # None
        /\ ReturnedMoves(astar, Len(bfs.result[1].value[1]))

\* C7: when no sequence of legal moves makes the puzzle monochrome, a call of
\* bfs_solve or of a_star_solve that is over has returned None.
C7_UnreachableReturnsNone ==
    MinMoves(start) = None =>
        /\ bfs.pc = "done" => ReturnedNone(bfs)
        /\ astar.pc = "done" => ReturnedNone(astar)

\* C8: a call of bfs_solve or of a_star_solve that is over has ended by
\* returning a list of moves or None.
C8_SolversEndWithListOrNone ==
    /\ bfs.pc = "done" => bfs.result[1].outcome = "return"
    /\ astar.pc = "done" => astar.result[1].outcome = "return"

----------------------------------------------------------------------------
(* Sameness of two puzzles as colored graphs, decided on the puzzles       *)
(* themselves: a bijection of the nodes that keeps edges and non-edges     *)
(* and, with it, a bijection of the colors (or, if fixed, the very same    *)
(* colors).  f is the node mapping so far, g the color mapping so far.     *)

RECURSIVE shape_extend(_, _, _, _, _, _)
shape_extend(P, Q, todo, f, g, fixed) ==
    IF todo = <<>> THEN TRUE
    ELSE \E w \in Range(Q.nodes) \ {f[x] : x \in DOMAIN f} :
            /\ IF fixed THEN P.color[Head(todo)] = Q.color[w]
               ELSE IF P.color[Head(todo)] \in DOMAIN g
               THEN g[P.color[Head(todo)]] = Q.color[w]
               ELSE Q.color[w] \notin {g[c] : c \in DOMAIN g}
            /\ \A x \in DOMAIN f :
                  ({Head(todo), x} \in P.edges) = ({w, f[x]} \in Q.edges)
            /\ ({Head(todo)} \in P.edges) = ({w} \in Q.edges)
            /\ shape_extend(P, Q, Tail(todo), (Head(todo) :> w) @@ f,
                            (P.color[Head(todo)] :> Q.color[w]) @@ g, fixed)

\* same topology and same coloring up to a renaming of the node ids and a
\* renaming of the colors
SameShape(P, Q) ==
    /\ Len(P.nodes) = Len(Q.nodes)
    /\ shape_extend(P, Q, P.nodes, <<>>, <<>>, FALSE)

\* same topology and the very same coloring up to a renaming of the node ids
SameColoring(P, Q) ==
    /\ Len(P.nodes) = Len(Q.nodes)
    /\ shape_extend(P, Q, P.nodes, <<>>, <<>>, TRUE)

\* the collapsed copy of a query's puzzle
Collapsed(q) == collapse(Rebuilt(q), None)

\* C11 as stated: the canonical graphs of two collapsed puzzles are isomorphic
\* exactly when the puzzles have the same topology and the same coloring up to
\* a renaming of the node ids.
C11_IsomorphicIffSameColoring ==
    (remembered # None /\ lastq # None) =>
        (is_isomorphic(remembered[1].iso, lastq[1].iso)
            <=> SameColoring(Collapsed(remembered[1]), Collapsed(lastq[1])))

\* C11 amended: the canonical graphs of two collapsed puzzles are isomorphic
\* exactly when the puzzles have the same topology and the same coloring up to
\* a renaming of the node ids and a renaming of the colors.
C11_IsomorphicIffSameShape ==
    (remembered # None /\ lastq # None) =>
        (is_isomorphic(remembered[1].iso, lastq[1].iso)
            <=> SameShape(Collapsed(remembered[1]), Collapsed(lastq[1])))

\* C11's case: two puzzles of three nodes or more after collapse whose
\* canonical graphs are isomorphic although corresponding nodes have
\* different colors.
C11_Witness ==
    /\ remembered # None /\ lastq # None
    /\ Len(Collapsed(lastq[1]).nodes) >= 3
    /\ is_isomorphic(remembered[1].iso, lastq[1].iso)
    /\ ~SameColoring(Collapsed(remembered[1]), Collapsed(lastq[1]))

\* ---------------------------------------------------------------------
\* Private trackers (core.py Puzzle.__init__: hasher=None gives the puzzle
\* a HashTracker of its own; creator.py hardest_puzzle builds puzzles so)
\* ---------------------------------------------------------------------

\* a tracker as HashTracker() leaves it: no quick hash registered
HashTracker_init == <<>>

\* puzzle.full_hash on a newly built puzzle whose tracker is its own; the
\* tracker that other puzzles share registers nothing
QueryPrivate ==
    /\ lastq = None
    /\ \E p \in Family :
          lastq' = Some(QueryRecord(p, Puzzle_full_hash(HashTracker_init, p), FALSE))
    /\ UNCHANGED <<hashes, remembered>>
    /\ UNCHANGED OtherThanHash

NextTrackers == Query \/ QueryPrivate \/ Remember \/ Forget

SpecTrackers == InitHash /\ [][NextTrackers]_vars

C17_SolvedStartReturnsEmpty ==
    /\ (Cardinality({start.color[n] : n \in Range(start.nodes)}) = 1) =>
          /\ is_solved(start)
          /\ bfs.pc = "done" => ReturnedMoves(bfs, 0)
          /\ astar.pc = "done" => ReturnedMoves(astar, 0)
    /\ start.nodes = <<>> => ~is_solved(start)


----------------------------------------------------------------------------
(* SpecDemo: bfs_solve on the two puzzles of core.py's demo, under every    *)
(* palette.                                                                 *)

DemoStarts ==
    {BuildSolvable(<<1, 2, 3, 4, 5>>, <<ORANGE, ORANGE, DARK_BLUE, CREAM, CREAM>>,
                   <<<<1, 2>>, <<2, 3>>, <<3, 4>>, <<4, 5>>, <<5, 1>>>>, palette) :
        palette \in Palettes}
    \cup
    {BuildSolvable(<<10, 20, 30, 80, 70>>, <<CREAM, CREAM, TURQUOISE, ORANGE, ORANGE>>,
                   <<<<10, 20>>, <<20, 30>>, <<30, 80>>, <<80, 70>>, <<70, 10>>>>, palette) :
        palette \in Palettes}

InitDemo ==
    /\ start \in DemoStarts
    /\ hashes = <<>>
    /\ bfs = BfsIdle
    /\ astar = AStarIdle
    /\ puzzle = None /\ lastop = None
    /\ heap = None /\ heapout = None
    /\ remembered = None /\ lastq = None

NextDemo == BfsSolve \/ BfsIteration \/ BfsExhausted

SpecDemo == InitDemo /\ [][NextDemo]_vars

\* the start is the demo's puzzle1
IsPuzzle1(p) == p.nodes = <<1, 2, 3, 4, 5>>

\* C18: the demo's 5-node cycle collapses to exactly 3 nodes, pairwise
\* adjacent, one from each of the components {1,2}, {3} and {4,5}; and when
\* bfs_solve is over on it, under a palette with the puzzle's three colors, it
\* has returned a list of exactly 2 moves.
C18_CycleCollapsesAndSolvesInTwo ==
    IsPuzzle1(start) =>
        /\ Len(collapse(copy(start), None).nodes) = 3
        /\ \A S \in {{1, 2}, {3}, {4, 5}} :
              Cardinality(Range(collapse(copy(start), None).nodes) \cap S) = 1
        /\ \A a \in Range(collapse(copy(start), None).nodes),
              b \in Range(collapse(copy(start), None).nodes) :
                 ({a, b} \in collapse(copy(start), None).edges) <=> (a # b)
        /\ (bfs.pc = "done" /\ {ORANGE, DARK_BLUE, CREAM} \subseteq Range(start.valid_colors))
              => ReturnedMoves(bfs, 2)

\* bfs_solve is over on puzzle1 under a palette of its three colors
C18_Witness ==
    /\ IsPuzzle1(start)
    /\ {ORANGE, DARK_BLUE, CREAM} \subseteq Range(start.valid_colors)
    /\ bfs.pc = "done"
    /\ ReturnedMoves(bfs, 2)

----------------------------------------------------------------------------
(* solver.py: the heuristics, and playing moves one at a time.             *)

\* a color_heuristic that counts the colors and subtracts nothing
color_heuristic_count(puzzle_) == Cardinality({get_color(puzzle_, n) : n \in Range(puzzle_.nodes)})

color_heuristic(puzzle_) ==
    Cardinality({get_color(puzzle_, node_id) : node_id \in Range(puzzle_.nodes)}) - 1

\* graph.degree[v]: a loop counts twice
graph_degree(p, v) ==
    Cardinality(get_neighbors(p, v) \ {v}) + (IF {v} \in p.edges THEN 2 ELSE 0)

graph_number_of_edges(p) == Cardinality(p.edges)

SetMax(S) == CHOOSE x \in S : \A y \in S : y <= x

\* max() of an empty list is a ValueError
edge_reduction_bound_of(q) ==
    IF q.nodes = <<>> THEN Raise("ValueError")
    ELSE Return(SetMax({graph_degree(q, v) : v \in Range(q.nodes)}))

edge_reduction_bound(p) == edge_reduction_bound_of(collapse(copy(p), None))

\* math.ceil(e / k) for integers e >= 0 and k > 0
ceil_div(e, k) == (e + k - 1) \div k

max_edge_reduction_after(p, k) ==
    IF k.outcome = "raise" THEN k
    ELSE IF k.value = 0 THEN Return(0)
    ELSE Return(ceil_div(graph_number_of_edges(p), k.value))

max_edge_reduction_heuristic(p) == max_edge_reduction_after(p, edge_reduction_bound(p))

PlayColorSet == {ORANGE, DARK_BLUE, CREAM}

\* the palettes, each in every iteration order
PlayPalettes == UNION {PaletteOrders(S) : S \in SUBSET PlayColorSet}

\* the colorings of n nodes up to a renaming of the colors: a node has a color
\* only after every lower color has been used on an earlier node
PlayColorings(n) ==
    {colors \in [1..n -> PlayColorSet] :
        \A i \in 1..n : \A k \in PlayColorSet :
            k < colors[i] => \E j \in 1..(i - 1) : colors[j] = k}

SmallPlayPuzzles ==
    UNION {UNION {UNION {{BuildSolvable([i \in 1..n |-> i], colors, SetToSeq(E), palette) :
                             E \in SUBSET Range(PairSeq(n))} :
                         colors \in PlayColorings(n)} :
                  n \in 0..PlayMaxNodes} : palette \in PlayPalettes}

\* the complete bipartite graph on {1,2,3} and {4,5,6}, one color a side
K33(palette) ==
    BuildSolvable(<<1, 2, 3, 4, 5, 6>>,
                  <<ORANGE, ORANGE, ORANGE, DARK_BLUE, DARK_BLUE, DARK_BLUE>>,
                  <<<<1, 4>>, <<1, 5>>, <<1, 6>>, <<2, 4>>, <<2, 5>>, <<2, 6>>,
                    <<3, 4>>, <<3, 5>>, <<3, 6>>>>,
                  palette)

\* a tree: node 1 joined to 2 and 3, each of these to two leaves; 2 and 3 of
\* one color, the other nodes of the other
DoubleBroom(palette) ==
    BuildSolvable(<<1, 2, 3, 4, 5, 6, 7>>,
                  <<DARK_BLUE, ORANGE, ORANGE, DARK_BLUE, DARK_BLUE, DARK_BLUE, DARK_BLUE>>,
                  <<<<1, 2>>, <<1, 3>>, <<2, 4>>, <<2, 5>>, <<3, 6>>, <<3, 7>>>>,
                  palette)

PlayPuzzles ==
    SmallPlayPuzzles
    \cup UNION {{K33(palette), DoubleBroom(palette)} :
                   palette \in PaletteOrders({ORANGE, DARK_BLUE})}

NoPlay == [op |-> "none", before |-> None, move |-> None]

InitPlay ==
    /\ puzzle \in PlayPuzzles
    /\ lastop = NoPlay
    /\ heap = None /\ heapout = None
    /\ hashes = <<>> /\ remembered = None /\ lastq = None
    /\ start = None /\ bfs = None /\ astar = None

\* collapsed_self = self.copy(); collapsed_self.collapse()
PlayCollapse ==
    /\ puzzle' = collapse(copy(puzzle), None)
    /\ lastop' = [op |-> "collapse", before |-> Some(puzzle), move |-> None]
    /\ UNCHANGED OtherThanPuzzle

\* search_follower on one of the moves search_expander lists
PlayMove ==
    /\ \E i \in DOMAIN search_expander(puzzle) :
          /\ puzzle' = search_follower(puzzle, search_expander(puzzle)[i])
          /\ lastop' = [op |-> "move", before |-> Some(puzzle),
                        move |-> Some(search_expander(puzzle)[i])]
    /\ UNCHANGED OtherThanPuzzle

NextPlay == PlayCollapse \/ PlayMove

SpecPlay == InitPlay /\ [][NextPlay]_vars

\* the states one search_follower away from a state of frontier
Followers(frontier) ==
    UNION {{search_follower(p, search_expander(p)[i]) : i \in DOMAIN search_expander(p)} :
              p \in frontier}

\* frontier: the states first reached with k moves; seen: those reached with k
\* moves or fewer
RECURSIVE FewestMovesFrom(_, _, _)
FewestMovesFrom(frontier, seen, k) ==
    IF \E p \in frontier : search_detector(p) THEN Some(k)
    ELSE IF frontier = {} THEN None
    ELSE FewestMovesFrom(Followers(frontier) \ seen, seen \cup Followers(frontier), k + 1)

\* the least number of moves after which search_detector holds, None if none
FewestMoves(p) == FewestMovesFrom({p}, {p}, 0)

\* the state was reached by a move from lastop.before
Played == lastop.op = "move"

\* C13: the color heuristic is 0 exactly on solved states, never drops by more
\* than the unit cost of a move along a legal move, and never exceeds the
\* least number of moves that solve the state.
C13_ColorHeuristicConsistent ==
    /\ (color_heuristic(puzzle) = 0) <=> is_solved(puzzle)
    /\ Played => color_heuristic(lastop.before[1]) <= 1 + color_heuristic(puzzle)
    /\ FewestMoves(puzzle) # None => color_heuristic(puzzle) <= FewestMoves(puzzle)[1]

\* a move that removed a color from a three-colored state two moves from solved
C13_Witness ==
    /\ Played
    /\ color_heuristic(lastop.before[1]) = 2
    /\ color_heuristic(puzzle) = 1
    /\ FewestMoves(lastop.before[1]) = Some(2)

\* max_edge_reduction_heuristic returned a value on the collapsed state p
Estimated(p) == ~p.not_collapsed /\ max_edge_reduction_heuristic(p).outcome = "return"

\* C14: on a collapsed state the max-edge-reduction heuristic never exceeds the
\* least number of moves that solve the state (admissible), and along a legal
\* move between collapsed states it drops by at most one (consistent).
C14_MaxEdgeReductionConsistent ==
    Estimated(puzzle) =>
        /\ FewestMoves(puzzle) # None =>
              max_edge_reduction_heuristic(puzzle).value <= FewestMoves(puzzle)[1]
        /\ (Played /\ Estimated(lastop.before[1])) =>
              max_edge_reduction_heuristic(lastop.before[1]).value
                  <= 1 + max_edge_reduction_heuristic(puzzle).value


\* the pairs of a node of p and a palette color other than the node's color
LegalMoves(p) ==
    {m \in Range(p.nodes) \X Range(p.valid_colors) : m[2] # p.color[m[1]]}

\* C16: on every state, get_valid_moves lists exactly the pairs (node, color)
\* with node in the state, color in the palette and color other than the
\* node's current color, each once; the move applied to reach a state was such
\* a pair of the state it was applied to.
C16_ValidMovesExact ==
    /\ Range(get_valid_moves(puzzle)) = LegalMoves(puzzle)
    /\ Len(get_valid_moves(puzzle)) = Cardinality(LegalMoves(puzzle))
    /\ Played => lastop.move[1] \in LegalMoves(lastop.before[1])

\* a move was applied to a state where some palette color was a node's current
\* color and some node had two colors to move to
C16_Witness ==
    /\ Played
    /\ \E n \in Range(lastop.before[1].nodes) :
          lastop.before[1].color[n] \in Range(lastop.before[1].valid_colors)
    /\ \E m1 \in LegalMoves(lastop.before[1]), m2 \in LegalMoves(lastop.before[1]) :
          m1[1] = m2[1] /\ m1[2] # m2[2]


\* p after the whole same-colored region of node_id is given color, collapsed
FloodThenCollapse(p, node_id, color) ==
    collapse([redo_all(copy(p)) EXCEPT !.color = Flood(p, p.color, node_id, color)], None)

\* the same nodes, colors and edges
SameGraph(p, q) ==
    /\ Range(p.nodes) = Range(q.nodes)
    /\ \A n \in Range(p.nodes) : p.color[n] = q.color[n]
    /\ p.edges = q.edges

\* C20: the puzzle that set_color(node, color, propagate=True) followed by
\* collapse() leaves, on a puzzle collapsed or not, is the puzzle left by
\* recoloring the whole same-colored connected region of node and collapsing.
C20_SetColorThenCollapseFloods ==
    Played =>
        SameGraph(puzzle,
                  FloodThenCollapse(lastop.before[1], lastop.move[1][1], lastop.move[1][2]))


\* the colors present among the nodes of p
ColorsPresent(p) == {get_color(p, n) : n \in Range(p.nodes)}

\* C21: a legal move introduces no color that was absent before it, and
\* removes at most one of the colors present before it.
C21_MoveAddsNoColor ==
    Played =>
        /\ ColorsPresent(puzzle) \subseteq ColorsPresent(lastop.before[1])
        /\ Cardinality(ColorsPresent(lastop.before[1]) \ ColorsPresent(puzzle)) <= 1


\* a move was played from a collapsed state
PlayedFromCollapsed == Played /\ ~lastop.before[1].not_collapsed

\* C22: a legal move from a collapsed state removes at most as many edges as
\* the maximum node degree of that state.
C22_EdgesRemovedAtMostMaxDegree ==
    PlayedFromCollapsed =>
        graph_number_of_edges(lastop.before[1]) - graph_number_of_edges(puzzle)
            <= edge_reduction_bound_of(lastop.before[1]).value

\* C23: a legal move from a collapsed state increases neither the number of
\* edges nor the maximum node degree.
C23_EdgesAndDegreeNotIncreasing ==
    PlayedFromCollapsed =>
        /\ graph_number_of_edges(puzzle) <= graph_number_of_edges(lastop.before[1])
        /\ edge_reduction_bound_of(puzzle).value
              <= edge_reduction_bound_of(lastop.before[1]).value

----------------------------------------------------------------------------
(* search_algs.py: AStarSolver.solve, on the grid of the module's quick     *)
(* test.                                                                    *)

\* SolutionHeapItem: a name, a score and an info; no attribute named cost
SolutionHeapItem(name, score, info) == [name |-> name, score |-> score, info |-> info]

\* MinHeap._sift_up on an item without cost: the loop body reads item.cost
SolutionHeap_sift_up(h, idx) ==
    IF idx = 0 THEN Returned(heap_place(h, h._heap[idx + 1], idx), None)
    ELSE Raised(h, "AttributeError")

\* MinHeap._sift_down on an item without cost: with a child in the array the
\* loop body reads cost
SolutionHeap_sift_down(h, idx) ==
    IF 2 * idx + 1 >= Len(h._heap) THEN Returned(heap_place(h, h._heap[idx + 1], idx), None)
    ELSE Raised(h, "AttributeError")

\* MinHeap.add_or_update on an item without cost: the update branch reads
\* obj.cost
SolutionHeap_add_or_update(h, obj) ==
    IF obj.name \notin DOMAIN h._pos
    THEN SolutionHeap_sift_up(
             [h EXCEPT !._heap = Append(@, obj), !._pos = (obj.name :> Len(h._heap)) @@ @],
             Len(h._heap))
    ELSE Raised([h EXCEPT !._heap[h._pos[obj.name] + 1] = obj], "AttributeError")

\* MinHeap.pop, lines 68-71, once top and last are taken out
SolutionHeap_pop_answer(out, top) ==
    IF out.raised # None THEN out ELSE Returned(out.h, Some(top))

SolutionHeap_pop_rest(g, top, last) ==
    IF g._heap # <<>>
    THEN SolutionHeap_pop_answer(
             SolutionHeap_sift_down(
                 [g EXCEPT !._heap[1] = last, !._pos = (last.name :> 0) @@ @], 0),
             top)
    ELSE Returned(g, Some(top))

SolutionHeap_pop(h) ==
    IF h._heap = <<>> THEN Raised(h, "IndexError")
    ELSE SolutionHeap_pop_rest(heap_del_pos(heap_drop_last(h), h._heap[1].name),
                               h._heap[1], h._heap[Len(h._heap)])

\* the quick test's callables, for a grid of side N and a goal cell
in_bounds(N, x, y) == 0 <= x /\ x < N /\ 0 <= y /\ y < N

grid_namer(c) == c

grid_detector(goal, c) == c = goal

grid_expander(N, c) ==
    SelectSeq(<<<<-1, 0>>, <<1, 0>>, <<0, -1>>, <<0, 1>>>>,
              LAMBDA d : in_bounds(N, c[1] + d[1], c[2] + d[2]))

grid_follower(c, d) == <<c[1] + d[1], c[2] + d[2]>>

abs(x) == IF x < 0 THEN -x ELSE x

grid_heuristic(goal, c) == abs(goal[1] - c[1]) + abs(goal[2] - c[2])

grid_cost_fn(c, d, e) == 1

ZERO == 0

\* _reconstruct_path: moves gathered from the goal back, then reversed
RECURSIVE reconstruct_path_loop(_, _, _)
reconstruct_path_loop(parent, cur, path) ==
    IF cur \in DOMAIN parent
    THEN reconstruct_path_loop(parent, parent[cur][1], <<parent[cur][2]>> \o path)
    ELSE path

\* A _reconstruct_path that starts from the goal's parent: the move into the
\* goal is left out.
reconstruct_path_to_parent(parent, goal_name) ==
    IF goal_name \in DOMAIN parent
    THEN reconstruct_path_loop(parent, parent[goal_name][1], <<>>)
    ELSE <<>>

AStarSolver_reconstruct_path(parent, goal_name) == reconstruct_path_loop(parent, goal_name, <<>>)

\* solve, lines 236-241: the heap's answer to add_or_update enters the tables
astar_added(a, out) ==
    IF out.raised # None
    THEN [a EXCEPT !.heap = out.h, !.raised = out.raised]
    ELSE [a EXCEPT !.heap = out.h]

\* solve, lines 223-241: one move of the for loop, nxt_info the state it leads to
astar_move(prob, a, node, move, nxt_info) ==
    IF grid_namer(nxt_info) \in a.closed THEN a
    ELSE IF grid_namer(nxt_info) \notin DOMAIN a.g
            \/ a.g[node.name] + grid_cost_fn(node.info, move, nxt_info) < a.g[grid_namer(nxt_info)]
    THEN astar_added(
             [a EXCEPT !.g = (grid_namer(nxt_info) :>
                                 a.g[node.name] + grid_cost_fn(node.info, move, nxt_info)) @@ @,
                       !.parent = (grid_namer(nxt_info) :> <<node.name, move>>) @@ @],
             SolutionHeap_add_or_update(a.heap,
                 SolutionHeapItem(grid_namer(nxt_info),
                                  a.g[node.name] + grid_cost_fn(node.info, move, nxt_info)
                                      + grid_heuristic(prob.goal, nxt_info),
                                  nxt_info)))
    ELSE a

\* solve, lines 222-241: the for loop over the moves of the node popped; an
\* exception ends it
RECURSIVE astar_for_moves(_, _, _, _)
astar_for_moves(prob, a, node, moves) ==
    IF moves = <<>> \/ a.raised # None THEN a
    ELSE astar_for_moves(prob,
             astar_move(prob, a, node, Head(moves), grid_follower(node.info, Head(moves))),
             node, Tail(moves))

\* solve, lines 211-241: the loop body once heap.pop() has answered out
astar_popped(prob, a, out) ==
    IF out.raised # None
    THEN [a EXCEPT !.heap = out.h, !.raised = out.raised]
    ELSE IF grid_detector(prob.goal, out.ret[1].info)
    THEN [a EXCEPT !.heap = out.h, !.popped = Some(out.ret[1].name),
                   !.returned = Some(AStarSolver_reconstruct_path(a.parent, out.ret[1].name))]
    ELSE astar_for_moves(prob,
             [a EXCEPT !.heap = out.h, !.popped = Some(out.ret[1].name),
                       !.closed = @ \cup {out.ret[1].name}],
             out.ret[1], grid_expander(prob.N, out.ret[1].info))

astar_iteration(prob, a) == astar_popped(prob, a, SolutionHeap_pop(a.heap))

\* solve, lines 195-208: the tables and the heap with the start in it
astar_initialised(prob, start_info) ==
    astar_added(
        [g |-> grid_namer(start_info) :> ZERO, parent |-> <<>>, closed |-> {},
         heap |-> MinHeap_init(<<>>), popped |-> None, returned |-> None, raised |-> None],
        SolutionHeap_add_or_update(MinHeap_init(<<>>),
            SolutionHeapItem(grid_namer(start_info),
                             ZERO + grid_heuristic(prob.goal, start_info), start_info)))

\* the largest grid side of SpecAStar
GridMax == 3

Cells(N) == (0..(N - 1)) \X (0..(N - 1))

\* a grid of side N, a start cell in it, and a goal cell that may lie outside
GridProblems ==
    UNION {[N : {N}, start : Cells(N), goal : Cells(GridMax)] : N \in 1..GridMax}

GridIdle == [pc |-> "idle", tables |-> None, result |-> None]

InitAStar ==
    /\ start \in GridProblems
    /\ astar = GridIdle
    /\ puzzle = None /\ lastop = None
    /\ heap = None /\ heapout = None
    /\ hashes = <<>> /\ remembered = None /\ lastq = None
    /\ bfs = None

OtherThanAStar == <<puzzle, lastop, heap, heapout, hashes, remembered, lastq, bfs>>

\* what solve has answered once the tables are t, if it is over
astar_result(t) ==
    IF t.raised # None THEN Some(Raise(t.raised[1]))
    ELSE IF t.returned # None THEN Some(Return(t.returned))
    ELSE None

\* the solver after a step that left the tables t
AStarAfter(t) ==
    astar' = [pc |-> IF astar_result(t) # None THEN "done" ELSE "loop",
              tables |-> Some(t), result |-> astar_result(t)]

\* solve up to the while loop
AStarBegin ==
    /\ astar.pc = "idle"
    /\ AStarAfter(astar_initialised(start, start.start))
    /\ UNCHANGED start
    /\ UNCHANGED OtherThanAStar

\* one iteration of the while loop
AStarIteration ==
    /\ astar.pc = "loop"
    /\ astar.tables[1].heap._heap # <<>>
    /\ AStarAfter(astar_iteration(start, astar.tables[1]))
    /\ UNCHANGED start
    /\ UNCHANGED OtherThanAStar

\* the heap is empty: return None
AStarExhausted ==
    /\ astar.pc = "loop"
    /\ astar.tables[1].heap._heap = <<>>
    /\ astar' = [astar EXCEPT !.pc = "done", !.result = Some(Return(None))]
    /\ UNCHANGED start
    /\ UNCHANGED OtherThanAStar

NextAStar == AStarBegin \/ AStarIteration \/ AStarExhausted

SpecAStar == InitAStar /\ [][NextAStar]_vars

\* C15: with unit costs and the Manhattan heuristic (consistent on the grid),
\* every identity popped has as recorded g its shortest distance from the
\* start, and when solve is over with the goal on the grid it has returned a
\* path of the shortest length, the Manhattan distance from start to goal.
C15_AStarFirstPopShortest ==
    /\ (astar.tables # None /\ astar.tables[1].popped # None) =>
          astar.tables[1].g[astar.tables[1].popped[1]]
              = grid_heuristic(astar.tables[1].popped[1], start.start)
    /\ (astar.pc = "done" /\ in_bounds(start.N, start.goal[1], start.goal[2])) =>
          /\ astar.result[1].outcome = "return"
          /\ astar.result[1].value # None
          /\ Len(astar.result[1].value[1]) = grid_heuristic(start.goal, start.start)

----------------------------------------------------------------------------
(* core.py and solver.py on a puzzle with an edge to a node that add_node   *)
(* never colored: graph.nodes[node_id] has no 'color' key, and reading it   *)
(* is a KeyError.                                                           *)

has_color(p, node_id) == node_id \in DOMAIN p.color

\* the answer of an operation: the puzzle after it and what it returned or raised
Outcome(p, result) == [p |-> p, result |-> result]

KeyError == Raise("KeyError")

get_color_checked(p, node_id) ==
    IF has_color(p, node_id) THEN Return(get_color(p, node_id)) ELSE KeyError

\* get_same_color_neighbors reads the color of node_id, then of each neighbor
get_same_color_neighbors_checked(p, node_id) ==
    IF ~has_color(p, node_id) THEN KeyError
    ELSE IF \E n \in get_neighbors(p, node_id) : ~has_color(p, n) THEN KeyError
    ELSE Return(get_same_color_neighbors(p, node_id))

\* an is_solved that leaves the nodes without color out
is_solved_skipping(p) ==
    Return(Cardinality({get_color(p, n) : n \in {m \in Range(p.nodes) : has_color(p, m)}}) = 1)

\* is_solved reads the color of every node
is_solved_checked(p) ==
    IF \E n \in Range(p.nodes) : ~has_color(p, n) THEN KeyError ELSE Return(is_solved(p))

\* set_color: the decorator first, then the neighbors read, then the assignment
set_color_checked(p, node_id, color, propagate) ==
    IF propagate /\ get_same_color_neighbors_checked(p, node_id).outcome = "raise"
    THEN Outcome(redo_all(p), KeyError)
    ELSE IF has_color(p, node_id)
    THEN Outcome(set_color(p, node_id, color, propagate), Return(None))
    ELSE Outcome([redo_all(p) EXCEPT !.color = (node_id :> color) @@ @], Return(None))

RECURSIVE component_loop_checked(_, _, _, _)
component_loop_checked(p, color, stack, comp) ==
    IF stack = <<>> THEN Return(comp)
    ELSE IF stack[Len(stack)] \in comp
    THEN component_loop_checked(p, color, SubSeq(stack, 1, Len(stack) - 1), comp)
    ELSE IF ~has_color(p, stack[Len(stack)]) THEN KeyError
    ELSE IF get_color(p, stack[Len(stack)]) # color
    THEN component_loop_checked(p, color, SubSeq(stack, 1, Len(stack) - 1), comp)
    ELSE component_loop_checked(p, color,
             SubSeq(stack, 1, Len(stack) - 1) \o SetToSeq(get_neighbors(p, stack[Len(stack)])),
             comp \cup {stack[Len(stack)]})

component_checked(p, start_id) ==
    IF ~has_color(p, start_id) THEN KeyError
    ELSE component_loop_checked(p, get_color(p, start_id), <<start_id>>, {})

\* collapse, lines 203-205, once _component has answered comp
collapse_node_checked(p, node_id, comp) ==
    IF comp.outcome = "raise" THEN Outcome(p, comp)
    ELSE Outcome(_collapse(p, node_id, comp.value), Return(None))

RECURSIVE collapse_loop_checked(_, _, _)
RECURSIVE collapse_loop_component(_, _, _, _)
collapse_loop_checked(p, todo, visited) ==
    IF todo = <<>> THEN Outcome([p EXCEPT !.not_collapsed = FALSE], Return(None))
    ELSE IF Head(todo) \in visited \/ Head(todo) \notin Range(p.nodes)
    THEN collapse_loop_checked(p, Tail(todo), visited)
    ELSE collapse_loop_component(p, todo, visited, component_checked(p, Head(todo)))

collapse_loop_component(p, todo, visited, comp) ==
    IF comp.outcome = "raise" THEN Outcome(p, comp)
    ELSE collapse_loop_checked(_collapse(p, Head(todo), comp.value), Tail(todo),
                               visited \cup comp.value)

collapse_checked(p, node_id) ==
    IF ~p.not_collapsed THEN Outcome(p, Return(None))
    ELSE IF node_id # None
    THEN collapse_node_checked(p, node_id[1], component_checked(p, node_id[1]))
    ELSE collapse_loop_checked(p, p.nodes, {})

\* get_valid_moves reads the color of each node once per palette color
get_valid_moves_checked(p) ==
    IF p.valid_colors # <<>> /\ \E n \in Range(p.nodes) : ~has_color(p, n) THEN KeyError
    ELSE Return(get_valid_moves(p))

\* to_colored_digraph reads the color of every node
to_colored_digraph_checked(p) ==
    IF \E n \in Range(p.nodes) : ~has_color(p, n) THEN KeyError
    ELSE Return(to_colored_digraph(p))

\* HashTracker.quick_hash: does the collapse of the copy, or the graph built
\* from it, raise
quick_hash_raises_after(c) ==
    c.result.outcome = "raise" \/ to_colored_digraph_checked(c.p).outcome = "raise"

quick_hash_raises(p) == quick_hash_raises_after(collapse_checked(copy(p), None))

\* Puzzle.quick_hash: nothing is stored when the recalculation raises
Puzzle_quick_hash_checked(p) ==
    IF p.recalc_quick_hash /\ quick_hash_raises(p) THEN Outcome(p, KeyError)
    ELSE Outcome(Puzzle_quick_hash(p).p, Return(Puzzle_quick_hash(p).val))

\* Puzzle.full_hash: a recalculation reads iso_graph, which recalculates
Puzzle_full_hash_checked(hs, p) ==
    IF p.recalc_full_hash /\ quick_hash_raises(p) THEN Outcome(p, KeyError)
    ELSE Outcome(Puzzle_full_hash(hs, p).p, Return(Puzzle_full_hash(hs, p).val))

color_heuristic_checked(p) ==
    IF \E n \in Range(p.nodes) : ~has_color(p, n) THEN KeyError
    ELSE Return(color_heuristic(p))

\* max_edge_reduction_heuristic: edge_reduction_bound collapses a copy
max_edge_reduction_heuristic_checked(p) ==
    IF collapse_checked(copy(p), None).result.outcome = "raise" THEN KeyError
    ELSE max_edge_reduction_heuristic(p)

\* the nodes of p that no add_node colored
Colorless(p) == {n \in Range(p.nodes) : ~has_color(p, n)}

\* nodes 1..n of which those of colored get a color from add_node and the
\* others exist through add_edge alone
DanglingBuilt(colored, coloring, E, palette) ==
    BuildSolvable(SetToSeq(colored),
                  [i \in 1..Cardinality(colored) |-> coloring[SetToSeq(colored)[i]]],
                  SetToSeq(E), palette)

DanglingPuzzles ==
    UNION {UNION {UNION {{DanglingBuilt(colored, coloring, E, palette) :
                             coloring \in [colored -> {ORANGE, DARK_BLUE}],
                             palette \in PaletteOrders({ORANGE, DARK_BLUE})} :
                         E \in {F \in SUBSET Range(PairSeq(n)) :
                                   \A m \in (1..n) \ colored : \E e \in F : m \in {e[1], e[2]}}} :
                  colored \in (SUBSET (1..n)) \ {1..n}} :
           n \in 1..DanglingMaxNodes}

NoDanglingOp == [op |-> "none", node |-> None, before |-> None, result |-> None]

InitDangling ==
    /\ puzzle \in DanglingPuzzles
    /\ lastop = NoDanglingOp
    /\ hashes = <<>>
    /\ heap = None /\ heapout = None
    /\ remembered = None /\ lastq = None
    /\ start = None /\ bfs = None /\ astar = None

OtherThanDangling == <<heap, heapout, remembered, lastq, start, bfs, astar>>

\* an operation that changes nothing answered result; what follows it is what
\* follows the state it was called in, so the model goes on from that state only
Read(op, node, result) ==
    /\ lastop.op \in {"none", "set_color", "set_color_alone", "collapse", "collapse_node",
                      "quick_hash", "full_hash"}
    /\ lastop' = [op |-> op, node |-> node, before |-> Some(puzzle), result |-> Some(result)]
    /\ UNCHANGED puzzle

\* an operation answered out, the puzzle after it included
Write(op, node, out) ==
    /\ lastop.op \in {"none", "set_color", "set_color_alone", "collapse", "collapse_node",
                      "quick_hash", "full_hash"}
    /\ lastop' = [op |-> op, node |-> node, before |-> Some(puzzle), result |-> Some(out.result)]
    /\ puzzle' = out.p

DGetColor ==
    /\ \E n \in Range(puzzle.nodes) : Read("get_color", Some(n), get_color_checked(puzzle, n))
    /\ UNCHANGED hashes
    /\ UNCHANGED OtherThanDangling

DSameColorNeighbors ==
    /\ \E n \in Range(puzzle.nodes) :
          Read("get_same_color_neighbors", Some(n), get_same_color_neighbors_checked(puzzle, n))
    /\ UNCHANGED hashes
    /\ UNCHANGED OtherThanDangling

DIsSolved ==
    /\ Read("is_solved", None, is_solved_checked(puzzle))
    /\ UNCHANGED hashes
    /\ UNCHANGED OtherThanDangling

DSetColor ==
    /\ \E n \in Range(puzzle.nodes), color \in {ORANGE, DARK_BLUE} :
          Write("set_color", Some(n), set_color_checked(puzzle, n, color, TRUE))
    /\ UNCHANGED hashes
    /\ UNCHANGED OtherThanDangling

\* set_color without propagation; the puzzle keeps a node without color
DSetColorAlone ==
    /\ \E n \in Range(puzzle.nodes), color \in {ORANGE, DARK_BLUE} :
          /\ Colorless(puzzle) # {n}
          /\ Write("set_color_alone", Some(n), set_color_checked(puzzle, n, color, FALSE))
    /\ UNCHANGED hashes
    /\ UNCHANGED OtherThanDangling

DCollapse ==
    /\ Write("collapse", None, collapse_checked(puzzle, None))
    /\ UNCHANGED hashes
    /\ UNCHANGED OtherThanDangling

DCollapseNode ==
    /\ \E n \in Range(puzzle.nodes) :
          Write("collapse_node", Some(n), collapse_checked(puzzle, Some(n)))
    /\ UNCHANGED hashes
    /\ UNCHANGED OtherThanDangling

DValidMoves ==
    /\ Read("get_valid_moves", None, get_valid_moves_checked(puzzle))
    /\ UNCHANGED hashes
    /\ UNCHANGED OtherThanDangling

DQuickHash ==
    /\ Write("quick_hash", None, Puzzle_quick_hash_checked(puzzle))
    /\ UNCHANGED hashes
    /\ UNCHANGED OtherThanDangling

DFullHash ==
    /\ Write("full_hash", None, Puzzle_full_hash_checked(hashes, puzzle))
    /\ hashes' = IF Puzzle_full_hash_checked(hashes, puzzle).result.outcome = "raise"
                 THEN hashes ELSE Puzzle_full_hash(hashes, puzzle).hashes
    /\ UNCHANGED OtherThanDangling

DColorHeuristic ==
    /\ Read("color_heuristic", None, color_heuristic_checked(puzzle))
    /\ UNCHANGED hashes
    /\ UNCHANGED OtherThanDangling

DMaxEdgeReduction ==
    /\ Read("max_edge_reduction_heuristic", None, max_edge_reduction_heuristic_checked(puzzle))
    /\ UNCHANGED hashes
    /\ UNCHANGED OtherThanDangling

NextDangling ==
    \/ DGetColor \/ DSameColorNeighbors \/ DIsSolved \/ DSetColor \/ DSetColorAlone
    \/ DCollapse \/ DCollapseNode \/ DValidMoves \/ DQuickHash \/ DFullHash
    \/ DColorHeuristic \/ DMaxEdgeReduction

SpecDangling == InitDangling /\ [][NextDangling]_vars

\* the colored nodes joined to node n by a path of nodes of n's color
RECURSIVE ColoredRegion(_, _)
ColoredRegion(p, S) ==
    IF \E m \in Range(p.nodes) \ S :
          /\ has_color(p, m)
          /\ \E s \in S : {s, m} \in p.edges /\ p.color[s] = p.color[m]
    THEN ColoredRegion(p, S \cup {m \in Range(p.nodes) \ S :
                                     /\ has_color(p, m)
                                     /\ \E s \in S : {s, m} \in p.edges /\ p.color[s] = p.color[m]})
    ELSE S

Around(p, S) == S \cup {m \in Range(p.nodes) : \E s \in S : {s, m} \in p.edges}

\* the operation raised KeyError
IsKeyError(result) == result.outcome = "raise" /\ result.value = "KeyError"

\* the nodes whose color the operation op on node n of p asks for
ColorsRead(p, op, n) ==
    CASE op = "get_color" -> {n[1]}
      [] op \in {"get_same_color_neighbors", "set_color"} -> Around(p, {n[1]})
      [] op = "set_color_alone" -> {}
      [] op = "collapse_node" ->
            IF has_color(p, n[1]) THEN Around(p, ColoredRegion(p, {n[1]})) ELSE {n[1]}
      [] op = "get_valid_moves" -> IF p.valid_colors = <<>> THEN {} ELSE Range(p.nodes)
      [] OTHER -> Range(p.nodes)

\* C19: an operation that reads the color of a node named by an edge only
\* raises a lookup error (KeyError), and afterwards every such node is still
\* in the graph and still without color, unless the operation was a set_color
\* of that very node.
C19_ColorlessNodeRaises ==
    lastop.op # "none" =>
        /\ (ColorsRead(lastop.before[1], lastop.op, lastop.node) \cap Colorless(lastop.before[1]) # {})
              => IsKeyError(lastop.result[1])
        /\ \A n \in Colorless(lastop.before[1]) :
              \/ n \in Colorless(puzzle)
              \/ lastop.op \in {"set_color", "set_color_alone"} /\ lastop.node = Some(n)

\* collapse() raised on a puzzle with a colored node and a node without color
C19_Witness ==
    /\ lastop.op = "collapse"
    /\ IsKeyError(lastop.result[1])
    /\ Colorless(lastop.before[1]) # {}
    /\ Colorless(lastop.before[1]) # Range(lastop.before[1].nodes)

----------------------------------------------------------------------------
(* SpecLoops: collapse on puzzles whose graph may hold self-loops          *)
(* (graph.add_edge(v, v) is accepted by networkx): claim C24.              *)

LoopMaxNodes == 3

\* the pairs add_edge is called with, a pair <<v, v>> included
LoopPairs(n) == {pr \in (1..n) \X (1..n) : pr[1] <= pr[2]}

LoopPuzzles ==
    UNION {UNION {{Build([i \in 1..n |-> i], colors, SetToSeq(E)) :
                      E \in SUBSET LoopPairs(n)} :
                  colors \in [1..n -> {ORANGE, DARK_BLUE}]} :
           n \in 0..LoopMaxNodes}

InitLoops ==
    /\ puzzle \in LoopPuzzles
    /\ lastop = NoOp
    /\ heap = None /\ heapout = None
    /\ hashes = <<>> /\ remembered = None /\ lastq = None
    /\ start = None /\ bfs = None /\ astar = None

\* set_color on a puzzle as built; lastop keeps the call's arguments
LoopSetColor ==
    \E node_id \in Range(puzzle.nodes), color \in {ORANGE, DARK_BLUE}, propagate \in BOOLEAN :
        /\ lastop.op = "none" /\ puzzle \in LoopPuzzles
        /\ puzzle' = set_color(puzzle, node_id, color, propagate)
        /\ lastop' = [op |-> "set_color", before |-> Some(puzzle), prevop |-> lastop.op,
                      node_id |-> node_id, color |-> color, propagate |-> propagate]
        /\ UNCHANGED OtherThanPuzzle

NextLoops == Collapse \/ CollapseNode \/ LoopSetColor

SpecLoops == InitLoops /\ [][NextLoops]_vars

\* some member of the component of m in p is adjacent to some member of the
\* component of n
ComponentsAdjacent(p, m, n) ==
    \E a \in MonoClosure(p, {m}), c \in MonoClosure(p, {n}) : {a, c} \in p.edges

\* C24: after collapse() the puzzle is the quotient graph of the puzzle it was
\* called on: every same-colored component has exactly one surviving member,
\* which keeps its color; two survivors are joined iff a member of one's
\* component was adjacent to a member of the other's; no edge is a self-loop.
C24_CollapseIsQuotient ==
    lastop.op = "collapse" =>
        LET survivors == Range(puzzle.nodes)
        IN /\ survivors \subseteq Range(lastop.before[1].nodes)
           /\ Len(puzzle.nodes) = Cardinality(survivors)
           /\ \A comp \in MonoComponents(lastop.before[1]) :
                  Cardinality(comp \cap survivors) = 1
           /\ DOMAIN puzzle.color = survivors
           /\ \A n \in survivors : puzzle.color[n] = lastop.before[1].color[n]
           /\ \A m \in survivors, n \in survivors :
                  m # n => ({m, n} \in puzzle.edges <=> ComponentsAdjacent(lastop.before[1], m, n))
           /\ \A e \in puzzle.edges : Cardinality(e) = 2 /\ e \subseteq survivors

\* C24's case: collapse() ran on a puzzle with a self-loop and an edge inside a
\* same-colored component, merged nodes, and left two joined nodes.
C24_Witness ==
    /\ lastop.op = "collapse"
    /\ \E e \in lastop.before[1].edges : Cardinality(e) = 1
    /\ ~NoAdjacentSameColor(lastop.before[1])
    /\ Len(puzzle.nodes) < Len(lastop.before[1].nodes)
    /\ puzzle.edges # {}

\* the nodes set_color(node_id, color, propagate) recolors in p: node_id and,
\* when propagating, its direct neighbors of its color
Recolor(p, node_id, propagate) ==
    {node_id} \cup
    {m \in Range(p.nodes) : propagate /\ {node_id, m} \in p.edges /\ p.color[m] = p.color[node_id]}

\* C25: set_color gives the color to the node and, when propagating, to the
\* direct neighbors that had the node's color; every other node keeps its
\* color, and the nodes and the edges stay as they were.
C25_SetColorFrame ==
    lastop.op = "set_color" =>
        /\ puzzle.nodes = lastop.before[1].nodes
        /\ puzzle.edges = lastop.before[1].edges
        /\ DOMAIN puzzle.color = DOMAIN lastop.before[1].color
        /\ \A m \in Range(puzzle.nodes) :
               puzzle.color[m] =
                   IF m \in Recolor(lastop.before[1], lastop.node_id, lastop.propagate)
                   THEN lastop.color ELSE lastop.before[1].color[m]

\* C25's case, propagating: a neighbor was recolored with the node while a node
\* of the same old color two steps away kept it.
C25_Witness ==
    /\ lastop.op = "set_color" /\ lastop.propagate
    /\ \E m \in Range(puzzle.nodes) :
           /\ m # lastop.node_id
           /\ lastop.before[1].color[m] # lastop.color
           /\ puzzle.color[m] = lastop.color
    /\ \E k \in Range(puzzle.nodes) :
           /\ lastop.before[1].color[k] = lastop.before[1].color[lastop.node_id]
           /\ puzzle.color[k] # lastop.color

\* C25's case, not propagating: only the node was recolored although a
\* neighbor had its color.
C25_WitnessAlone ==
    /\ lastop.op = "set_color" /\ ~lastop.propagate
    /\ puzzle.color[lastop.node_id] # lastop.before[1].color[lastop.node_id]
    /\ \E m \in Range(puzzle.nodes) :
           /\ m # lastop.node_id
           /\ {m, lastop.node_id} \in puzzle.edges
           /\ lastop.before[1].color[m] = lastop.before[1].color[lastop.node_id]

----------------------------------------------------------------------------
(* SpecCache: one puzzle under add_node, add_edge, set_color, collapse,    *)
(* set_hasher, copy and reads of the hash properties: claim C26.           *)
(* puzzle is the puzzle, hashes its tracker's dictionary, start a copy of  *)
(* the puzzle just made (else None), which shares the tracker; the program *)
(* reads a property of the copy and goes on with the copy.                 *)
(* lastop after a read: the property read, the object read, and whether    *)
(* the value returned is the one computed from scratch.  lastq counts the  *)
(* operations applied so far, at most CacheMaxOps.                         *)

InitCache ==
    /\ puzzle = Puzzle_init(None)
    /\ lastop = NoOp
    /\ hashes = HashTracker_init
    /\ start = None
    /\ heap = None /\ heapout = None
    /\ remembered = None /\ lastq = 0
    /\ bfs = None /\ astar = None

OtherThanCache == <<heap, heapout, remembered, bfs, astar>>

CacheMaxOps == 6

\* one more operation
CacheStep == lastq < CacheMaxOps /\ lastq' = lastq + 1

HashProperties == {"quick_hash", "iso_graph", "full_hash"}

\* reading the property which of p, whose tracker holds hs
ReadProperty(hs, p, which) ==
    IF which = "quick_hash" THEN [hashes |-> hs] @@ Puzzle_quick_hash(p)
    ELSE IF which = "iso_graph" THEN [hashes |-> hs] @@ Puzzle_iso_graph(p)
    ELSE Puzzle_full_hash(hs, p)

\* a puzzle with the graph of p and nothing cached
Uncached(p) ==
    [redo_all(p) EXCEPT !._full_hash = None, !._quick_hash = None, !._iso_graph = None,
                        !.not_collapsed = p.not_collapsed]

\* the value of the property which computed from the graph of p and the tracker
FromScratch(hs, p, which) ==
    IF which = "quick_hash" THEN HashTracker_quick_hash(Uncached(p))[1]
    ELSE IF which = "iso_graph" THEN HashTracker_quick_hash(Uncached(p))[2]
    ELSE HashTracker_full_hash(hs, Uncached(p)).val

ReadRecord(which, on, r, scratch) ==
    [op |-> which, on |-> on, same |-> (r.val = scratch),
     isomorphic |-> IF which = "iso_graph" THEN is_isomorphic(r.val, scratch)
                    ELSE r.val = scratch,
     prevop |-> lastop.op]

\* a read of a hash property of the puzzle
CacheRead ==
    \E which \in HashProperties :
        /\ CacheStep
        /\ start = None
        /\ puzzle' = ReadProperty(hashes, puzzle, which).p
        /\ hashes' = ReadProperty(hashes, puzzle, which).hashes
        /\ lastop' = ReadRecord(which, "puzzle", ReadProperty(hashes, puzzle, which),
                                FromScratch(hashes, puzzle, which))
        /\ UNCHANGED start
        /\ UNCHANGED OtherThanCache

\* a read of a hash property of the copy, which then takes the puzzle's place
CacheReadCopy ==
    \E which \in HashProperties :
        /\ CacheStep
        /\ start # None
        /\ puzzle' = ReadProperty(hashes, start[1], which).p
        /\ start' = None
        /\ hashes' = ReadProperty(hashes, start[1], which).hashes
        /\ lastop' = ReadRecord(which, "copy", ReadProperty(hashes, start[1], which),
                                FromScratch(hashes, start[1], which))
        /\ UNCHANGED OtherThanCache

\* copy()
CacheCopy ==
    /\ CacheStep
    /\ start = None
    /\ start' = Some(copy(puzzle))
    /\ lastop' = NoOp
    /\ UNCHANGED <<puzzle, hashes>>
    /\ UNCHANGED OtherThanCache

\* set_hasher(HashTracker()): the puzzle gets a new, empty tracker
CacheSetHasher ==
    /\ CacheStep
    /\ start = None
    /\ puzzle' = set_hasher(puzzle)
    /\ hashes' = HashTracker_init
    /\ UNCHANGED start
    /\ lastop' = NoOp
    /\ UNCHANGED OtherThanCache

CacheMaxNodes == 2

\* add_node with the next unused id
CacheAddNode ==
    \E node_id \in 1..CacheMaxNodes, color \in {ORANGE, DARK_BLUE} :
        /\ CacheStep
        /\ start = None
        /\ node_id \notin Range(puzzle.nodes)
        /\ \A m \in 1..CacheMaxNodes : m < node_id => m \in Range(puzzle.nodes)
        /\ puzzle' = add_node(puzzle, node_id, color)
        /\ lastop' = NoOp
        /\ UNCHANGED <<hashes, start>>
        /\ UNCHANGED OtherThanCache

CacheAddEdge ==
    \E node1 \in Range(puzzle.nodes), node2 \in Range(puzzle.nodes) :
        /\ CacheStep
        /\ start = None
        /\ node1 < node2
        /\ {node1, node2} \notin puzzle.edges
        /\ puzzle' = add_edge(puzzle, node1, node2)
        /\ lastop' = NoOp
        /\ UNCHANGED <<hashes, start>>
        /\ UNCHANGED OtherThanCache

CacheSetColor ==
    \E node_id \in Range(puzzle.nodes), color \in {ORANGE, DARK_BLUE}, propagate \in BOOLEAN :
        /\ CacheStep
        /\ start = None
        /\ puzzle' = set_color(puzzle, node_id, color, propagate)
        /\ lastop' = NoOp
        /\ UNCHANGED <<hashes, start>>
        /\ UNCHANGED OtherThanCache

\* collapse() and collapse(node_id)
CacheCollapse ==
    \E node_id \in {None} \cup {Some(n) : n \in Range(puzzle.nodes)} :
        /\ CacheStep
        /\ start = None
        /\ puzzle' = collapse(puzzle, node_id)
        /\ lastop' = [NoOp EXCEPT !.op = IF node_id = None THEN "collapse" ELSE "collapse_node"]
        /\ UNCHANGED <<hashes, start>>
        /\ UNCHANGED OtherThanCache

NextCache ==
    \/ CacheAddNode \/ CacheAddEdge \/ CacheSetColor \/ CacheCollapse
    \/ CacheRead \/ CacheReadCopy \/ CacheCopy \/ CacheSetHasher

SpecCache == InitCache /\ [][NextCache]_vars

WasRead == lastop.op \in HashProperties

\* C26: whatever was done to a puzzle before, a read of quick_hash, iso_graph
\* or full_hash, on the puzzle or on a copy, returns the value a computation
\* from the current graph and the current tracker returns.
C26_NoStaleHash == WasRead => lastop.same

----------------------------------------------------------------------------
(* SpecFrame: the operations that work on copies, seen from the puzzle     *)
(* they are called on: claim C27.                                          *)
(* Python's objects are a sequence objs of puzzles, a reference is an      *)
(* index into it; copy() makes a new object, every other statement acts on *)
(* the object its reference names.  Reference 1 is the receiver.           *)

\* A copy() that returns the object it is called on.
same_object(objs, ref) == [objs |-> objs, ref |-> ref]

\* puzzle.copy(): the objects with the new one, and the reference to it
new_copy(objs, ref) == [objs |-> Append(objs, copy(objs[ref])), ref |-> Len(objs) + 1]

\* c.ref.collapse()
collapse_object(c) == [c EXCEPT !.objs[c.ref] = collapse(@, None)]

\* HashTracker.quick_hash, lines 65-69, on the collapsed copy c.ref
quick_hash_collapsed(c) ==
    [objs |-> c.objs, val |-> hash_and_graph(to_colored_digraph(c.objs[c.ref]))]

\* HashTracker.quick_hash(puzzle)
HashTracker_quick_hash_objects(objs, ref) ==
    quick_hash_collapsed(collapse_object(new_copy(objs, ref)))

recalc_quick_objects(ref, r, i) ==
    [objs |-> [r.objs EXCEPT ![ref] = [@ EXCEPT !._quick_hash = Some(r.val[1]),
                                                  !._iso_graph = Some(r.val[2]),
                                                  !.recalc_quick_hash = FALSE]],
     val |-> r.val[i]]

\* Puzzle.quick_hash of the object ref
Puzzle_quick_hash_objects(objs, ref) ==
    IF objs[ref].recalc_quick_hash
    THEN recalc_quick_objects(ref, HashTracker_quick_hash_objects(objs, ref), 1)
    ELSE [objs |-> objs, val |-> objs[ref]._quick_hash[1]]

\* Puzzle.iso_graph of the object ref
Puzzle_iso_graph_objects(objs, ref) ==
    IF objs[ref].recalc_full_hash
    THEN recalc_quick_objects(ref, HashTracker_quick_hash_objects(objs, ref), 2)
    ELSE [objs |-> objs, val |-> objs[ref]._iso_graph[1]]

\* Puzzle.full_hash, lines 103-104: t is the tracker's answer
full_hash_stored(ref, objs, t) ==
    [hashes |-> t.hashes,
     objs |-> [objs EXCEPT ![ref] = [@ EXCEPT !._full_hash = Some(t.val),
                                              !.recalc_full_hash = FALSE]],
     val |-> t.val]

\* HashTracker.full_hash, lines 49-58: r2 is the read of puzzle.iso_graph
full_hash_objects_graph(hs, ref, quick_hash, r2) ==
    full_hash_stored(ref, r2.objs, bucket_search(hs, quick_hash, r2.val, r2.objs[ref]))

\* HashTracker.full_hash, line 48: r1 is the read of puzzle.quick_hash
full_hash_objects_quick(hs, ref, r1) ==
    full_hash_objects_graph(hs, ref, r1.val, Puzzle_iso_graph_objects(r1.objs, ref))

\* Puzzle.full_hash of the object ref
Puzzle_full_hash_objects(hs, objs, ref) ==
    IF objs[ref].recalc_full_hash
    THEN full_hash_objects_quick(hs, ref, Puzzle_quick_hash_objects(objs, ref))
    ELSE [hashes |-> hs, objs |-> objs, val |-> objs[ref]._full_hash[1]]

\* search_follower, lines 161-163, on the copy c.ref
follow_on_copy(c, move) ==
    [c EXCEPT !.objs[c.ref] = collapse(set_color(@, move[1], move[2], TRUE), None)]

\* search_follower(puzzle, move): the objects after it and the reference returned
search_follower_objects(objs, ref, move) == follow_on_copy(new_copy(objs, ref), move)

\* BFSSolver._solve_without_progress on the object it is given, whose copies
\* are the only other objects it works on: the tracker after it and its result
RECURSIVE bfs_loop(_, _, _)
bfs_loop_after(r) ==
    IF r.returned # None THEN [hashes |-> r.hashes, result |-> Return(r.returned)]
    ELSE bfs_loop(r.hashes, r.name_to_data, r.queue)

bfs_loop(hs, name_to_data, queue) ==
    IF queue = <<>> THEN [hashes |-> hs, result |-> Return(None)]
    ELSE bfs_loop_after(bfs_iteration(hs, name_to_data, Tail(queue),
                                      name_to_data[Head(queue)]))

bfs_entered(out) ==
    bfs_loop(out.hashes, (out.val :> [info |-> out.p, path |-> <<>>]), <<out.val>>)

BFSSolver_solve(hs, init_info) ==
    IF search_detector(init_info) THEN [hashes |-> hs, result |-> Return(Some(<<>>))]
    ELSE bfs_entered(search_namer(hs, init_info))

\* bfs_solve, lines 166-167, and a_star_solve, lines 177-178: c is collapsed_self
collapsed_self_objects(objs, ref) == collapse_object(new_copy(objs, ref))

FrameMaxNodes == 2

FramePuzzles ==
    UNION {UNION {UNION {{BuildSolvable([i \in 1..n |-> i], colors, SetToSeq(E), palette) :
                             E \in SUBSET Range(PairSeq(n))} :
                         colors \in [1..n -> {ORANGE, DARK_BLUE, CREAM}]} :
                  n \in 0..FrameMaxNodes} :
           palette \in PaletteOrders({ORANGE, DARK_BLUE})
                       \cup PaletteOrders({ORANGE, DARK_BLUE, CREAM})}

InitFrame ==
    /\ puzzle \in FramePuzzles
    /\ lastop = [op |-> "none", before |-> None, made |-> None, result |-> None]
    /\ hashes = HashTracker_init
    /\ heap = None /\ heapout = None
    /\ remembered = None /\ lastq = None
    /\ start = None /\ bfs = None /\ astar = None

OtherThanFrame == <<heap, heapout, remembered, lastq, start, bfs, astar>>

\* the receiver after the call, and what the call made and returned
Called(op, objs, made, result) ==
    /\ puzzle' = objs[1]
    /\ lastop' = [op |-> op, before |-> Some(puzzle), made |-> made, result |-> result]

FrameQuickHashDone(r) == Called("quick_hash", r.objs, None, Some(Return(r.val)))

FrameQuickHash ==
    /\ FrameQuickHashDone(Puzzle_quick_hash_objects(<<puzzle>>, 1))
    /\ UNCHANGED hashes
    /\ UNCHANGED OtherThanFrame

FrameFullHashDone(r) ==
    /\ Called("full_hash", r.objs, None, Some(Return(r.val)))
    /\ hashes' = r.hashes

FrameFullHash ==
    /\ FrameFullHashDone(Puzzle_full_hash_objects(hashes, <<puzzle>>, 1))
    /\ UNCHANGED OtherThanFrame

FrameFollowDone(c) == Called("search_follower", c.objs, Some(c.objs[c.ref]), None)

FrameFollow ==
    /\ \E move \in Range(get_valid_moves(puzzle)) :
           FrameFollowDone(search_follower_objects(<<puzzle>>, 1, move))
    /\ UNCHANGED hashes
    /\ UNCHANGED OtherThanFrame

FrameBfsSolved(c, r) ==
    /\ Called("bfs_solve", c.objs, Some(c.objs[c.ref]), Some(r.result))
    /\ hashes' = r.hashes

FrameBfsSolveDone(c) == FrameBfsSolved(c, BFSSolver_solve(hashes, c.objs[c.ref]))

FrameBfsSolve ==
    /\ FrameBfsSolveDone(collapsed_self_objects(<<puzzle>>, 1))
    /\ UNCHANGED OtherThanFrame

FrameAStarSolveDone(c) ==
    Called("a_star_solve", c.objs, Some(c.objs[c.ref]),
           Some(a_star_solve_construct(c.objs[c.ref])))

FrameAStarSolve ==
    /\ FrameAStarSolveDone(collapsed_self_objects(<<puzzle>>, 1))
    /\ UNCHANGED hashes
    /\ UNCHANGED OtherThanFrame

NextFrame ==
    FrameQuickHash \/ FrameFullHash \/ FrameFollow \/ FrameBfsSolve \/ FrameAStarSolve

SpecFrame == InitFrame /\ [][NextFrame]_vars

\* C27: a read of quick_hash or full_hash, search_follower, bfs_solve and
\* a_star_solve leave the nodes, the edges, the colors and the not_collapsed
\* flag of the puzzle they are called on as they were.
C27_ReceiverUnchanged ==
    lastop.op # "none" =>
        /\ puzzle.nodes = lastop.before[1].nodes
        /\ puzzle.edges = lastop.before[1].edges
        /\ puzzle.color = lastop.before[1].color
        /\ puzzle.not_collapsed = lastop.before[1].not_collapsed

\* C27's case: search_follower recolored and merged nodes in the copy it
\* returned, and the puzzle is still marked as not collapsed.
C27_Witness ==
    /\ lastop.op = "search_follower"
    /\ Len(lastop.made[1].nodes) < Len(puzzle.nodes)
    /\ \E n \in Range(lastop.made[1].nodes) : lastop.made[1].color[n] # puzzle.color[n]
    /\ puzzle.not_collapsed /\ ~lastop.made[1].not_collapsed

\* C27's case: bfs_solve returned moves found on its collapsed copy.
C27_WitnessBfs ==
    /\ lastop.op = "bfs_solve"
    /\ lastop.result[1].value # None /\ lastop.result[1].value[1] # <<>>
    /\ puzzle.not_collapsed /\ ~lastop.made[1].not_collapsed

----------------------------------------------------------------------------
(* SpecShared: two searches that share one tracker: claim C28.             *)
(* A search is the sequence of the records of the puzzles it has named so  *)
(* far; remembered holds the two sequences.  One step is one full_hash     *)
(* call of one of the searches, the tracker's lookup and insertion being   *)
(* one atomic step; the puzzles named are any puzzles of SharedFamily, in  *)
(* any order.                                                              *)

SharedMaxQueries == 2

Searches == {1, 2}

\* the puzzles the searches name: the demo's cycles, the hexagons, and the
\* puzzle without nodes
SharedFamily == NamedPuzzles \cup {Build(<<>>, <<>>, <<>>)}

InitShared ==
    /\ hashes = HashTracker_init
    /\ remembered = [i \in Searches |-> <<>>]
    /\ lastq = None
    /\ puzzle = None /\ lastop = None
    /\ heap = None /\ heapout = None
    /\ start = None /\ bfs = None /\ astar = None

\* search i has named p and got out
SharedNamed(i, p, out) ==
    /\ hashes' = out.hashes
    /\ remembered' = [remembered EXCEPT ![i] = Append(@, QueryRecord(p, out, FALSE))]

\* search i reads the full_hash of one more puzzle
SharedLookup ==
    /\ \E i \in Searches, p \in SharedFamily :
           /\ Len(remembered[i]) < SharedMaxQueries
           /\ SharedNamed(i, p, Puzzle_full_hash(hashes, p))
    /\ UNCHANGED lastq
    /\ UNCHANGED OtherThanHash

NextShared == SharedLookup

SpecShared == InitShared /\ [][NextShared]_vars

\* the records of the puzzles named so far by either search
SharedRecords == UNION {Range(remembered[i]) : i \in Searches}

\* C28: in every interleaving of the full_hash calls of two searches on one
\* tracker, two puzzles named so far have the same full identity if and only
\* if their canonical graphs are isomorphic, and no bucket of the tracker
\* holds two isomorphic graphs.
C28_SharedTrackerContract ==
    /\ \A a \in SharedRecords, b \in SharedRecords :
           (a.full = b.full) <=> is_isomorphic(a.iso, b.iso)
    /\ \A q \in DOMAIN hashes :
           \A i \in 1..Len(hashes[q]), j \in 1..Len(hashes[q]) :
               i < j => ~is_isomorphic(hashes[q][i], hashes[q][j])

\* C28's case: the searches took turns; each named a hexagon, which share a
\* bucket, and one got for a cycle the identity the other had got for the
\* cycle with other node ids.
C28_Witness ==
    /\ \E q \in DOMAIN hashes : Len(hashes[q]) = 2
    /\ Len(remembered[1]) = 2 /\ Len(remembered[2]) = 2
    /\ remembered[1][1].full # remembered[2][1].full
    /\ remembered[1][1].quick = remembered[2][1].quick
    /\ remembered[1][2].full = remembered[2][2].full
    /\ remembered[1][2].nodes # remembered[2][2].nodes

----------------------------------------------------------------------------
(* SpecLifecycle: a run of bfs_solve on a demo puzzle, a run of            *)
(* AStarSolver.solve on a grid problem, or a run of AStarSolver.solve with *)
(* SolvablePuzzle's callables on a demo puzzle: claims C29 and C30.        *)

\* the solver that does not run
Off == [pc |-> "off"]

\* ---------------------------------------------------------------------
\* AStarSolver.solve with SolvablePuzzle's callables: search_namer,
\* search_detector, search_expander, search_follower, search_heuristic and
\* search_cost, and 0 as init_generic_score.  The tables are those of the
\* grid's solve, with the tracker the namer asks (field hashes).
\* ---------------------------------------------------------------------

\* float(color_heuristic(puzzle)): the same number
search_heuristic(p) == color_heuristic(p)

search_cost(puzzle1, move, puzzle2) == 1

\* solve, lines 223-241: one move of the for loop; out is the namer's answer on
\* the state the follower made: its name, the state with its hash cached, and
\* the tracker after the question
puzzle_astar_move(a, node, move, out) ==
    IF out.val \in a.closed THEN [a EXCEPT !.hashes = out.hashes]
    ELSE IF out.val \notin DOMAIN a.g
            \/ a.g[node.name] + search_cost(node.info, move, out.p) < a.g[out.val]
    THEN astar_added(
             [a EXCEPT !.hashes = out.hashes,
                       !.g = (out.val :> a.g[node.name] + search_cost(node.info, move, out.p)) @@ @,
                       !.parent = (out.val :> <<node.name, move>>) @@ @],
             SolutionHeap_add_or_update(a.heap,
                 SolutionHeapItem(out.val,
                                  a.g[node.name] + search_cost(node.info, move, out.p)
                                      + search_heuristic(out.p),
                                  out.p)))
    ELSE [a EXCEPT !.hashes = out.hashes]

\* solve, lines 222-241: the for loop over the moves of the node popped; an
\* exception ends it
RECURSIVE puzzle_astar_for_moves(_, _, _)
puzzle_astar_for_moves(a, node, moves) ==
    IF moves = <<>> \/ a.raised # None THEN a
    ELSE puzzle_astar_for_moves(
             puzzle_astar_move(a, node, Head(moves),
                 search_namer(a.hashes, search_follower(node.info, Head(moves)))),
             node, Tail(moves))

\* A loop body without closed.add(name): the node popped is expanded and never
\* closed.
puzzle_astar_popped_never_closing(a, out) ==
    IF out.raised # None
    THEN [a EXCEPT !.heap = out.h, !.raised = out.raised]
    ELSE IF search_detector(out.ret[1].info)
    THEN [a EXCEPT !.heap = out.h, !.popped = Some(out.ret[1].name),
                   !.returned = Some(AStarSolver_reconstruct_path(a.parent, out.ret[1].name))]
    ELSE puzzle_astar_for_moves(
             [a EXCEPT !.heap = out.h, !.popped = Some(out.ret[1].name)],
             out.ret[1], search_expander(out.ret[1].info))

\* solve, lines 211-241: the loop body once heap.pop() has answered out
puzzle_astar_popped(a, out) ==
    IF out.raised # None
    THEN [a EXCEPT !.heap = out.h, !.raised = out.raised]
    ELSE IF search_detector(out.ret[1].info)
    THEN [a EXCEPT !.heap = out.h, !.popped = Some(out.ret[1].name),
                   !.returned = Some(AStarSolver_reconstruct_path(a.parent, out.ret[1].name))]
    ELSE puzzle_astar_for_moves(
             [a EXCEPT !.heap = out.h, !.popped = Some(out.ret[1].name),
                       !.closed = @ \cup {out.ret[1].name}],
             out.ret[1], search_expander(out.ret[1].info))

puzzle_astar_iteration(a) == puzzle_astar_popped(a, SolutionHeap_pop(a.heap))

\* solve, lines 195-208: the tables and the heap with the start in it; out is
\* the namer's answer on the start
puzzle_astar_initialised(out) ==
    astar_added(
        [g |-> out.val :> 0, parent |-> <<>>, closed |-> {},
         heap |-> MinHeap_init(<<>>), popped |-> None, returned |-> None, raised |-> None,
         hashes |-> out.hashes],
        SolutionHeap_add_or_update(MinHeap_init(<<>>),
            SolutionHeapItem(out.val, 0 + search_heuristic(out.p), out.p)))

PuzzleIdle == [pc |-> "puzzle_idle", tables |-> None, result |-> None]

\* the solver and the tracker after a step that left the tables t
PuzzleAStarAfter(t) ==
    /\ astar' = [pc |-> IF astar_result(t) # None THEN "done" ELSE "puzzle_loop",
                 tables |-> Some(t), result |-> astar_result(t)]
    /\ hashes' = t.hashes

\* solve, on the collapsed copy of the start, up to the while loop
PuzzleAStarBegin ==
    /\ astar.pc = "puzzle_idle"
    /\ PuzzleAStarAfter(puzzle_astar_initialised(search_namer(hashes, collapse(copy(start), None))))
    /\ UNCHANGED <<start, bfs>>
    /\ UNCHANGED OtherThanSearch

\* one iteration of the while loop
PuzzleAStarIteration ==
    /\ astar.pc = "puzzle_loop"
    /\ astar.tables[1].heap._heap # <<>>
    /\ PuzzleAStarAfter(puzzle_astar_iteration(astar.tables[1]))
    /\ UNCHANGED <<start, bfs>>
    /\ UNCHANGED OtherThanSearch

\* the heap is empty: return None
PuzzleAStarExhausted ==
    /\ astar.pc = "puzzle_loop"
    /\ astar.tables[1].heap._heap = <<>>
    /\ astar' = [astar EXCEPT !.pc = "done", !.result = Some(Return(None))]
    /\ UNCHANGED <<start, bfs, hashes>>
    /\ UNCHANGED OtherThanSearch

InitLifecycle ==
    /\ \/ start \in DemoStarts /\ bfs = BfsIdle /\ astar = Off
       \/ start \in GridProblems /\ astar = GridIdle /\ bfs = Off
       \/ start \in DemoStarts /\ astar = PuzzleIdle /\ bfs = Off
    /\ hashes = HashTracker_init
    /\ puzzle = None /\ lastop = None
    /\ heap = None /\ heapout = None
    /\ remembered = None /\ lastq = None

NextLifecycle ==
    \/ BfsSolve \/ BfsIteration \/ BfsExhausted
    \/ AStarBegin \/ AStarIteration \/ AStarExhausted
    \/ PuzzleAStarBegin \/ PuzzleAStarIteration \/ PuzzleAStarExhausted

SpecLifecycle == InitLifecycle /\ [][NextLifecycle]_vars

\* the names in the heap of the tables t
NamesInHeap(t) == {t.heap._heap[i].name : i \in DOMAIN t.heap._heap}

\* a step of the breadth-first search: every known name keeps its state and
\* its path, a name that has left the queue does not enter it again, and the
\* queue holds known names, each once
BfsForward ==
    (bfs.pc = "loop" /\ bfs'.pc \in {"loop", "done"}) =>
        /\ \A name \in DOMAIN bfs.name_to_data :
               /\ name \in DOMAIN bfs'.name_to_data
               /\ bfs'.name_to_data[name] = bfs.name_to_data[name]
               /\ name \notin Range(bfs.queue) => name \notin Range(bfs'.queue)
        /\ Range(bfs'.queue) \subseteq DOMAIN bfs'.name_to_data
        /\ Cardinality(Range(bfs'.queue)) = Len(bfs'.queue)

\* the solver is in the while loop of solve
AStarLooping == {"loop", "puzzle_loop"}

\* a step of A*: the closed set only grows, a name popped and expanded in the
\* step was not closed before, and no name is both in the heap and closed
AStarForward ==
    /\ (astar'.pc \in AStarLooping \cup {"done"} /\ astar'.tables # None) =>
           NamesInHeap(astar'.tables[1]) \cap astar'.tables[1].closed = {}
    /\ (astar.pc \in AStarLooping /\ astar'.pc \in AStarLooping \cup {"done"}) =>
           /\ astar.tables[1].closed \subseteq astar'.tables[1].closed
           /\ (astar'.tables[1].closed # astar.tables[1].closed) =>
                  /\ astar'.tables[1].popped # None
                  /\ astar'.tables[1].popped[1] \notin astar.tables[1].closed
                  /\ astar'.tables[1].popped[1] \in NamesInHeap(astar.tables[1])
    /\ (astar.pc \in AStarLooping /\ astar.tables[1].heap._heap # <<>>) =>
           /\ astar'.tables[1].popped = Some(astar.tables[1].heap._heap[1].name)
           /\ astar'.tables[1].popped[1] \notin astar.tables[1].closed
           /\ astar'.tables[1].returned = None =>
                  astar'.tables[1].popped[1] \in astar'.tables[1].closed

\* C29: in both searches an identity goes from unvisited to the frontier to
\* done and never back.  In BFS an identity is enqueued at most once and keeps
\* the state and path that reached it first; in A* an identity is popped and
\* expanded at most once, a closed identity is not put into the heap again,
\* and the heap's names and the closed set are disjoint at every step.
C29_LifecycleForward == [][BfsForward /\ AStarForward]_vars

\* C29's case: the breadth-first search has expanded the start and met a name
\* again that it knew: fewer names are known than the start has moves.
C29_Witness ==
    /\ bfs.pc = "loop"
    /\ Cardinality(DOMAIN bfs.name_to_data) = Len(bfs.queue) + 1
    /\ Len(bfs.queue) >= 1
    /\ Len(bfs.queue) < Len(search_expander(collapse(copy(start), None)))

\* C29's case in A*: the start is closed and the heap holds names.
C29_WitnessAStar ==
    /\ astar.pc \in {"loop", "done"} /\ astar.tables # None
    /\ astar.tables[1].closed # {}
    /\ NamesInHeap(astar.tables[1]) # {}

\* the puzzle the moves lead to from the puzzle p
RECURSIVE FollowMoves(_, _)
FollowMoves(p, moves) ==
    IF moves = <<>> THEN p ELSE FollowMoves(search_follower(p, Head(moves)), Tail(moves))

\* the state of the name that the tables t have popped last
PoppedInfo(t) ==
    FollowMoves(collapse(copy(start), None), AStarSolver_reconstruct_path(t.parent, t.popped[1]))

\* C29's case in A* on a puzzle: two names are closed, the start and a state
\* one move away; the second was expanded with a move that leads to a closed
\* name, which was not put into the heap again, and with a move that leads to
\* the name the heap holds.
C29_WitnessPuzzle ==
    /\ astar.pc = "puzzle_loop"
    /\ Cardinality(astar.tables[1].closed) = 2
    /\ Len(AStarSolver_reconstruct_path(astar.tables[1].parent, astar.tables[1].popped[1])) = 1
    /\ \E move \in Range(search_expander(PoppedInfo(astar.tables[1]))) :
          search_namer(hashes, search_follower(PoppedInfo(astar.tables[1]), move)).val
              \in astar.tables[1].closed
    /\ Cardinality(NamesInHeap(astar.tables[1])) = 1
    /\ \E move \in Range(search_expander(PoppedInfo(astar.tables[1]))) :
          search_namer(hashes, search_follower(PoppedInfo(astar.tables[1]), move)).val
              \in NamesInHeap(astar.tables[1])

\* the moves, applied in order with search_follower from the puzzle p, are each
\* among the moves of the puzzle they are applied to, and end in a solved puzzle
RECURSIVE PuzzleReplay(_, _)
PuzzleReplay(p, moves) ==
    IF moves = <<>> THEN search_detector(p)
    ELSE /\ Head(moves) \in Range(search_expander(p))
         /\ PuzzleReplay(search_follower(p, Head(moves)), Tail(moves))

\* the same on the grid, from the cell c
RECURSIVE GridReplay(_, _, _)
GridReplay(prob, c, moves) ==
    IF moves = <<>> THEN grid_detector(prob.goal, c)
    ELSE /\ Head(moves) \in Range(grid_expander(prob.N, c))
         /\ GridReplay(prob, grid_follower(c, Head(moves)), Tail(moves))

\* the solver is over and has returned a list of moves
ReturnedList(solver) ==
    /\ solver.pc = "done"
    /\ solver.result[1].outcome = "return"
    /\ solver.result[1].value # None

\* the start is a problem of the grid
OnGrid == "N" \in DOMAIN start

\* C30: when a search has returned a list of moves, applying them in order
\* with the follower from the state the solver was given applies only moves
\* that are legal where they are applied and ends in a goal state.
C30_ReturnedMovesReplay ==
    /\ ReturnedList(bfs) =>
           PuzzleReplay(collapse(copy(start), None), bfs.result[1].value[1])
    /\ (ReturnedList(astar) /\ OnGrid) =>
           GridReplay(start, start.start, astar.result[1].value[1])
    /\ (ReturnedList(astar) /\ ~OnGrid) =>
           PuzzleReplay(collapse(copy(start), None), astar.result[1].value[1])

\* C30's case in A* on a puzzle: solve returned two moves, walked back from
\* the goal through two parents; the start and the state between were closed.
C30_WitnessPuzzle ==
    /\ ReturnedList(astar)
    /\ ~OnGrid
    /\ Len(astar.result[1].value[1]) = 2
    /\ Cardinality(astar.tables[1].closed) = 2
    /\ Cardinality(DOMAIN astar.tables[1].parent) = 2
    /\ astar.tables[1].popped[1] \notin astar.tables[1].closed

\* C30's case: the breadth-first search returned two moves, the second of
\* which starts from a puzzle the first move made smaller.
C30_Witness ==
    /\ ReturnedList(bfs)
    /\ Len(bfs.result[1].value[1]) = 2
    /\ Len(search_follower(collapse(copy(start), None), bfs.result[1].value[1][1]).nodes)
           < Len(collapse(copy(start), None).nodes)

----------------------------------------------------------------------------
(* SpecIdentity: puzzles with a palette named one after the other by one   *)
(* tracker: claim C31.  remembered is the puzzle named before the latest   *)
(* one, lastq the latest one, each with the full hash it was given.        *)

IdentityMaxNodes == 2

IdentityPuzzles ==
    UNION {UNION {UNION {{BuildSolvable([i \in 1..n |-> i], colors, SetToSeq(E), palette) :
                             E \in SUBSET Range(PairSeq(n))} :
                         colors \in [1..n -> {ORANGE, DARK_BLUE, CREAM}]} :
                  n \in 0..IdentityMaxNodes} :
           palette \in PaletteOrders({ORANGE}) \cup PaletteOrders({ORANGE, DARK_BLUE})}

InitIdentity ==
    /\ hashes = HashTracker_init
    /\ remembered = None /\ lastq = None
    /\ puzzle = None /\ lastop = None
    /\ heap = None /\ heapout = None
    /\ start = None /\ bfs = None /\ astar = None

\* p was named: out is the answer of its full_hash
IdentityNamed(p, out) ==
    /\ hashes' = out.hashes
    /\ remembered' = lastq
    /\ lastq' = Some([p |-> p, full |-> out.val])

\* search_namer on a first and on a second puzzle
IdentityName ==
    /\ remembered = None
    /\ \E p \in IdentityPuzzles : IdentityNamed(p, search_namer(hashes, p))
    /\ UNCHANGED OtherThanHash

NextIdentity == IdentityName

SpecIdentity == InitIdentity /\ [][NextIdentity]_vars

\* C31: two puzzles given the same full identity by one tracker, with the
\* same palette, need the same least number of moves.
C31_SameIdentitySameLength ==
    (remembered # None /\ lastq # None
        /\ remembered[1].full = lastq[1].full
        /\ remembered[1].p.valid_colors = lastq[1].p.valid_colors)
    => MinMoves(remembered[1].p) = MinMoves(lastq[1].p)

----------------------------------------------------------------------------
(* SpecMirror: a MaxHeap and a MinHeap under the same operations, the      *)
(* MinHeap with the keys negated: claims C32 and C33.  heap holds the two  *)
(* heaps; heapout the last operation, the item it was given, the heaps it  *)
(* was applied to and what each heap answered.                             *)

\* the items of a MaxHeap with the keys negated, as items of a MinHeap
Negated(items) == [i \in DOMAIN items |-> [name |-> items[i].name, cost |-> -items[i].score]]

InitMirror ==
    /\ \E items \in MaxItems :
          heap = [max |-> MaxHeap_init(items), min |-> MinHeap_init(Negated(items))]
    /\ heapout = [op |-> "none", obj |-> None, before |-> None, max |-> None, min |-> None]
    /\ puzzle = None /\ lastop = None
    /\ hashes = <<>> /\ remembered = None /\ lastq = None
    /\ start = None /\ bfs = None /\ astar = None

\* what a pop or a peek answered: the name returned, or the exception
HeapAnswer(out) ==
    [raised |-> out.raised, name |-> IF out.ret = None THEN None ELSE Some(out.ret[1].name)]

MirrorAddOrUpdate ==
    \E name \in Names, s \in Keys :
        /\ heap' = [max |-> MaxHeap_add_or_update(heap.max, [name |-> name, score |-> s]),
                    min |-> MinHeap_add_or_update(heap.min, [name |-> name, cost |-> -s])]
        /\ heapout' = [op |-> "add_or_update", obj |-> Some([name |-> name, score |-> s]),
                       before |-> Some(heap), max |-> None, min |-> None]
        /\ UNCHANGED OtherThanHeap

MirrorAnswered(op, outmax, outmin) ==
    /\ heap' = [max |-> outmax.h, min |-> outmin.h]
    /\ heapout' = [op |-> op, obj |-> None, before |-> Some(heap),
                   max |-> HeapAnswer(outmax), min |-> HeapAnswer(outmin)]

MirrorPop ==
    /\ MirrorAnswered("pop", MaxHeap_pop(heap.max), MinHeap_pop(heap.min))
    /\ UNCHANGED OtherThanHeap

MirrorPeek ==
    /\ MirrorAnswered("peek", MaxHeap_peek(heap.max), MinHeap_peek(heap.min))
    /\ UNCHANGED OtherThanHeap

NextMirror == MirrorAddOrUpdate \/ MirrorPop \/ MirrorPeek

SpecMirror == InitMirror /\ [][NextMirror]_vars

\* the names of the array of h, position by position
ArrayNames(h) == [i \in DOMAIN h._heap |-> h._heap[i].name]

\* C32: after every add_or_update and pop, a MaxHeap fed keys s and a MinHeap
\* fed keys -s hold the same names at the same array positions, and each pop
\* returns the same name from both.
C32_MaxMirrorsMin ==
    /\ ArrayNames(heap.max) = ArrayNames(heap.min)
    /\ heap.max._pos = heap.min._pos
    /\ \A i \in DOMAIN heap.max._heap : heap.min._heap[i].cost = -heap.max._heap[i].score
    /\ heapout.max = heapout.min

\* C32's case: a pop returned a name from heaps of three items, and the item
\* put in the root's place stayed above the remaining one.
C32_Witness ==
    /\ heapout.op = "pop" /\ heapout.max.name # None /\ heapout.min.name # None
    /\ Len(heapout.before[1].max._heap) = 3
    /\ Len(heap.max._heap) = 2
    /\ heap.max._heap[1].score > heap.max._heap[2].score

\* __len__: len(self._heap)
heap_len(h) == Len(h._heap)

\* each name once in the array, _pos maps exactly the stored names to their
\* array indices, len is the number of stored names
HeapIndexed(h) ==
    /\ \A i \in DOMAIN h._heap, j \in DOMAIN h._heap :
          h._heap[i].name = h._heap[j].name => i = j
    /\ DOMAIN h._pos = {h._heap[i].name : i \in DOMAIN h._heap}
    /\ \A i \in DOMAIN h._heap : h._pos[h._heap[i].name] = i - 1
    /\ heap_len(h) = Cardinality(DOMAIN h._pos)

\* C33: after the construction and every public operation of a MinHeap or a
\* MaxHeap, each name occurs once in the array, _pos maps exactly the stored
\* names to their array indices and len counts the stored names; add_or_update
\* on a stored name leaves the given item stored under that name and the
\* length as it was.
C33_IndexMapAndLength ==
    /\ HeapIndexed(heap.max) /\ HeapIndexed(heap.min)
    /\ heapout.op = "add_or_update" =>
          LET obj == heapout.obj[1]
              was == heapout.before[1]
          IN /\ heap.max._heap[heap.max._pos[obj.name] + 1] = obj
             /\ heap.min._heap[heap.min._pos[obj.name] + 1] =
                   [name |-> obj.name, cost |-> -obj.score]
             /\ obj.name \in DOMAIN was.max._pos =>
                   /\ heap_len(heap.max) = heap_len(was.max)
                   /\ heap_len(heap.min) = heap_len(was.min)
                   /\ DOMAIN heap.max._pos = DOMAIN was.max._pos

\* C33's case: add_or_update gave a stored name a new key in heaps of three
\* items, and the item moved to another array index.
C33_Witness ==
    /\ heapout.op = "add_or_update"
    /\ heapout.obj[1].name \in DOMAIN heapout.before[1].max._pos
    /\ heap_len(heap.max) = 3
    /\ heapout.before[1].max._pos[heapout.obj[1].name] # heap.max._pos[heapout.obj[1].name]
    /\ heapout.before[1].max._heap[heapout.before[1].max._pos[heapout.obj[1].name] + 1].score
          # heapout.obj[1].score

----------------------------------------------------------------------------
(* bfs_solve on the demo's puzzles, the states the search works on: claim  *)
(* C34.  a_star_solve raises TypeError while it constructs its solver      *)
(* (a_star_solve_construct), before any state is handed to a callback.     *)

\* collapse() ran last and no two adjacent nodes share a color
FullyCollapsed(p) == ~p.not_collapsed /\ NoAdjacentSameColor(p)

\* the states the while loop popped: given to the expander, and each move of
\* theirs to the follower
BfsExpanded == {bfs.name_to_data[name].info : name \in DOMAIN bfs.name_to_data \ Range(bfs.queue)}

\* the states the follower made of the states popped: given to the detector
\* and, when not the goal, to the namer
BfsChildren ==
    UNION {{search_follower(info, move) : move \in Range(search_expander(info))} :
              info \in BfsExpanded}

\* C34: during bfs_solve the start handed to the search, every state stored
\* for expansion and every state the follower returns is fully collapsed: no
\* two adjacent nodes share a color.
C34_SearchStatesCollapsed ==
    bfs.pc # "idle" =>
        /\ FullyCollapsed(collapse(copy(start), None))
        /\ \A name \in DOMAIN bfs.name_to_data : FullyCollapsed(bfs.name_to_data[name].info)
        /\ \A child \in BfsChildren : FullyCollapsed(child)

\* C34's case: the start had adjacent nodes of one color, and a state reached
\* by a move was stored after the follower merged nodes.
C34_Witness ==
    /\ bfs.pc # "idle"
    /\ ~NoAdjacentSameColor(start)
    /\ \E name \in DOMAIN bfs.name_to_data :
          /\ Len(bfs.name_to_data[name].path) = 1
          /\ Len(bfs.name_to_data[name].info.nodes) < Len(collapse(copy(start), None).nodes)
          /\ \E child \in BfsChildren :
                /\ child.nodes = bfs.name_to_data[name].info.nodes
                /\ child.edges = bfs.name_to_data[name].info.edges
                /\ child.color = bfs.name_to_data[name].info.color

----------------------------------------------------------------------------
(* SpecAgain: two calls of solve on one AStarSolver, on the grid: claim    *)
(* C35.  self.heap is made once, in __init__, and solve takes it as it is. *)
(* lastop keeps the first call and the start cell of the second.           *)

\* solve, lines 193-208, on a solver whose heap is h: fresh tables, and the
\* start added to self.heap
astar_initialised_on(prob, start_info, h) ==
    astar_added(
        [g |-> grid_namer(start_info) :> ZERO, parent |-> <<>>, closed |-> {},
         heap |-> h, popped |-> None, returned |-> None, raised |-> None],
        SolutionHeap_add_or_update(h,
            SolutionHeapItem(grid_namer(start_info),
                             ZERO + grid_heuristic(prob.goal, start_info), start_info)))

\* solve, lines 210-243: the while loop from the tables t to the answer
RECURSIVE astar_loop(_, _)
astar_loop(prob, t) ==
    IF astar_result(t) # None THEN astar_result(t)[1]
    ELSE IF t.heap._heap = <<>> THEN Return(None)
    ELSE astar_loop(prob, astar_iteration(prob, t))

\* solve(start_info) on a solver just constructed
AStarSolver_solve(prob, start_info) == astar_loop(prob, astar_initialised(prob, start_info))

InitAgain ==
    /\ start \in GridProblems
    /\ astar = GridIdle
    /\ lastop = None
    /\ puzzle = None
    /\ heap = None /\ heapout = None
    /\ hashes = <<>> /\ remembered = None /\ lastq = None
    /\ bfs = None

\* the second call of solve, once the first is over
AgainBegin ==
    /\ astar.pc = "done"
    /\ lastop = None
    /\ \E s \in Cells(start.N) :
          /\ lastop' = Some([first |-> astar, start |-> s])
          /\ AStarAfter(astar_initialised_on(start, s, astar.tables[1].heap))
    /\ UNCHANGED <<start, puzzle, heap, heapout, hashes, remembered, lastq, bfs>>

NextAgain == AStarBegin \/ AStarIteration \/ AStarExhausted \/ AgainBegin

SpecAgain == InitAgain /\ [][NextAgain]_vars

\* two answers of solve are the same: both return one value, or both raise
\* one exception
SameAnswer(a, b) == a.outcome = b.outcome /\ a.value = b.value

\* C35: the second call of solve on an AStarSolver answers what solve answers
\* on a solver just constructed, whatever the first call left in the heap.
C35_SecondSolveIndependent ==
    (lastop # None /\ astar.pc = "done") =>
        SameAnswer(astar.result[1], AStarSolver_solve(start, lastop[1].start))

\* the first call left items in the heap, and the second call has answered
C35_Polluted ==
    /\ lastop # None /\ astar.pc = "done"
    /\ lastop[1].first.tables[1].heap._heap # <<>>

----------------------------------------------------------------------------
(* The dirty flags of a Puzzle, in SpecCache: claim C36. *)

\* the puzzle objects of a state of SpecCache: the puzzle, and its copy if one
\* was just made
CachePuzzles == {puzzle} \cup (IF start = None THEN {} ELSE {start[1]})

\* the asserts of full_hash, quick_hash and iso_graph pass on p: the branch
\* before each sets the value, or the value is set already
AssertionsPass(p) ==
    /\ p.recalc_full_hash \/ p._full_hash # None
    /\ p.recalc_quick_hash \/ p._quick_hash # None
    /\ p.recalc_full_hash \/ p._iso_graph # None

DirtyFlagsConsistent(p) ==
    /\ p.recalc_quick_hash => p.recalc_full_hash
    /\ ~p.recalc_quick_hash => (p._quick_hash # None /\ p._iso_graph # None)
    /\ ~p.recalc_full_hash => p._full_hash # None
    /\ ~p.not_collapsed => NoAdjacentSameColor(p)

\* C36: after any sequence of mutators, copy, set_hasher and hash reads,
\* recalc_quick_hash implies recalc_full_hash, a clean quick flag implies the
\* quick hash and the canonical graph are cached, a clean full flag implies
\* the full hash is cached, a clean not_collapsed implies no two adjacent
\* nodes share a color, and the asserts of the three properties pass.
C36_DirtyFlags ==
    \A p \in CachePuzzles : DirtyFlagsConsistent(p) /\ AssertionsPass(p)

\* C36's case: a copy of a collapsed puzzle of two nodes was read for its full
\* hash, and every flag of it is clean.
C36_Witness ==
    /\ lastop.op = "full_hash" /\ lastop.on = "copy"
    /\ Len(puzzle.nodes) = 2 /\ puzzle.edges # {}
    /\ ~puzzle.recalc_full_hash /\ ~puzzle.recalc_quick_hash /\ ~puzzle.not_collapsed

\* C36's other case: set_hasher on a puzzle whose hashes were all cached
\* leaves the quick flag clean and the full flag dirty.
C36_WitnessSetHasher ==
    /\ puzzle.recalc_full_hash /\ ~puzzle.recalc_quick_hash
    /\ puzzle._full_hash # None
    /\ puzzle.nodes # <<>>

============================================================================
